---- MODULE Spec2Model ----
(***************************************************************************)
(* Paohuzi rule engine: tiles, hands, committed groups, the win search,    *)
(* the huxi table and the turn loop of one round.                          *)
(***************************************************************************)
EXTENDS Integers, Sequences, FiniteSets, TLC

VARIABLES
    hand,        \* one Hand object driven directly: cards, drawn_card, exposed_groups
    hand0,       \* the Hand as it was before the calls recorded in `calls`
    calls,       \* results of the calls made on `hand`, oldest first
    game,        \* the Game object: deck, players, seats, flags
    pc           \* position of main.py's loop

handVars == <<hand, hand0, calls>>
gameVars == <<game, pc>>
vars == <<hand, hand0, calls, game, pc>>

-----------------------------------------------------------------------------
(* config/game_config.py *)

NUM_PLAYERS == 3
TOTAL_CARDS == 80
INITIAL_HAND_SIZE == 20
MIN_HUXI_TO_WIN == 15
BASE_SCORE == 1
HUXI_PER_EXTRA_SCORE == 3
WIN_HAND_SIZE == 21
SPECIAL_SEQUENCES == << <<1, 2, 3>>, <<2, 7, 10>> >>
CARD_VALUES == 1..10

\* core/deck.py : copies of each value+rank class in the deck
MAX_COPIES == 4

-----------------------------------------------------------------------------
(* core/card.py *)

Card(v, u) == [value |-> v, is_uppercase |-> u]

\* Python's None for an Optional[Card]
None == [value |-> 0, is_uppercase |-> FALSE]

AllCards == {Card(v, u) : v \in CARD_VALUES, u \in BOOLEAN}

\* Card.__lt__ : by value, minor before major on ties
card_lt(a, b) ==
    IF a.value # b.value THEN a.value < b.value
    ELSE (~a.is_uppercase) /\ b.is_uppercase

-----------------------------------------------------------------------------
(* list helpers: the list operations of Python the code relies on *)

\* a local name: e is evaluated once and F is applied to its value
Bind(e, F(_)) == CHOOSE r \in {F(x) : x \in {e}} : TRUE

\* number of elements of cards equal to c
Count(cards, c) == Cardinality({i \in DOMAIN cards : cards[i] = c})

\* c in cards
In(c, cards) == \E i \in DOMAIN cards : cards[i] = c

\* list.remove(c) : drops the first element equal to c
RemoveFirst(cards, c) ==
    IF In(c, cards)
    THEN LET i == CHOOSE k \in DOMAIN cards :
                      cards[k] = c /\ \A j \in 1..(k-1) : cards[j] # c
         IN SubSeq(cards, 1, i-1) \o SubSeq(cards, i+1, Len(cards))
    ELSE cards

\* keys of a dict / Counter filled by one pass over cards: first-occurrence order
KeysInOrder(cards) ==
    LET F == {i \in DOMAIN cards : \A j \in 1..(i-1) : cards[j] # cards[i]}
    IN [k \in 1..Cardinality(F) |->
          cards[CHOOSE i \in F : Cardinality({j \in F : j < i}) = k-1]]

\* sorted(list of integers)
SortedValues(vals) == SortSeq(vals, LAMBDA a, b : a < b)

\* list.sort() on cards
sort_cards(cards) == SortSeq(cards, card_lt)

RECURSIVE Flatten(_)
Flatten(lists) ==
    IF lists = <<>> THEN <<>> ELSE Head(lists) \o Flatten(Tail(lists))

-----------------------------------------------------------------------------
(* rules/pattern_matcher.py *)

\* mutant of is_valid_sequence: the values are compared in the order given
is_valid_sequence_unsorted(cards) ==
    IF Len(cards) # 3 THEN FALSE
    ELSE IF \E i \in 1..3 : cards[i].is_uppercase # cards[1].is_uppercase THEN FALSE
    ELSE LET values == [i \in 1..3 |-> cards[i].value]
         IN IF \E k \in DOMAIN SPECIAL_SEQUENCES : SPECIAL_SEQUENCES[k] = values
            THEN TRUE
            ELSE values[2] = values[1] + 1 /\ values[3] = values[2] + 1

is_valid_sequence(cards) ==
    IF Len(cards) # 3 THEN FALSE
    ELSE IF \E i \in 1..3 : cards[i].is_uppercase # cards[1].is_uppercase THEN FALSE
    ELSE LET values == SortedValues([i \in 1..3 |-> cards[i].value])
         IN IF \E k \in DOMAIN SPECIAL_SEQUENCES : SPECIAL_SEQUENCES[k] = values
            THEN TRUE
            ELSE values[2] = values[1] + 1 /\ values[3] = values[2] + 1

is_special_sequence(cards) ==
    IF Len(cards) # 3 THEN FALSE
    ELSE IF \E i \in 1..3 : cards[i].is_uppercase # cards[1].is_uppercase THEN FALSE
    ELSE LET values == SortedValues([i \in 1..3 |-> cards[i].value])
         IN \E k \in DOMAIN SPECIAL_SEQUENCES : SPECIAL_SEQUENCES[k] = values

\* the sequences find_sequences appends for one rank, in the order it appends them
SequencesOfRank(cards, u) ==
    LET present == {v \in CARD_VALUES : In(Card(v, u), cards)}
        special == SelectSeq(SPECIAL_SEQUENCES,
                       LAMBDA s : \A i \in 1..3 : s[i] \in present)
        sorted_values == SortedValues(
                       [k \in 1..Cardinality(present) |->
                          CHOOSE v \in present :
                             Cardinality({w \in present : w < v}) = k-1])
        runs == SelectSeq(
                   [i \in 1..(IF Len(sorted_values) >= 2 THEN Len(sorted_values) - 2 ELSE 0) |->
                       <<sorted_values[i], sorted_values[i+1], sorted_values[i+2]>>],
                   LAMBDA t : /\ t[2] = t[1] + 1
                              /\ t[3] = t[2] + 1
                              /\ \A k \in DOMAIN SPECIAL_SEQUENCES : SPECIAL_SEQUENCES[k] # t)
        all == special \o runs
    IN [k \in 1..Len(all) |-> [i \in 1..3 |-> Card(all[k][i], u)]]

find_sequences(cards) == SequencesOfRank(cards, FALSE) \o SequencesOfRank(cards, TRUE)

find_pairs(cards) ==
    LET keys == SelectSeq(KeysInOrder(cards), LAMBDA c : Count(cards, c) >= 2)
    IN [k \in 1..Len(keys) |-> <<keys[k], keys[k]>>]

\* mutant of remove_cards_from_list: the last card to remove is left in the list
remove_cards_from_list_two(cards, to_remove) ==
    IF Len(to_remove) >= 2
    THEN RemoveFirst(RemoveFirst(cards, to_remove[1]), to_remove[2])
    ELSE cards

RECURSIVE remove_cards_from_list(_, _)
remove_cards_from_list(cards, to_remove) ==
    IF to_remove = <<>> THEN cards
    ELSE remove_cards_from_list(RemoveFirst(cards, Head(to_remove)), Tail(to_remove))

-----------------------------------------------------------------------------
(* rules/huxi_calculator.py : a result is [raised, v]; raised models ValueError *)

Value(n) == [raised |-> FALSE, v |-> n]
Raised == [raised |-> TRUE, v |-> 0]

calculate_triplet_huxi(cards, is_exposed) ==
    IF Len(cards) # 3 THEN Raised
    ELSE IF \E i \in DOMAIN cards : cards[i] # cards[1] THEN Raised
    ELSE IF is_exposed
         THEN Value(IF cards[1].is_uppercase THEN 3 ELSE 1)
         ELSE Value(IF cards[1].is_uppercase THEN 6 ELSE 3)

\* mutant of calculate_quadruplet_huxi: an exposed quadruplet scores as a concealed one
calculate_quadruplet_huxi_flat(cards, is_exposed) ==
    IF Len(cards) # 4 THEN Raised
    ELSE IF \E i \in DOMAIN cards : cards[i] # cards[1] THEN Raised
    ELSE Value(IF cards[1].is_uppercase THEN 12 ELSE 9)

calculate_quadruplet_huxi(cards, is_exposed) ==
    IF Len(cards) # 4 THEN Raised
    ELSE IF \E i \in DOMAIN cards : cards[i] # cards[1] THEN Raised
    ELSE IF is_exposed
         THEN Value(IF cards[1].is_uppercase THEN 9 ELSE 6)
         ELSE Value(IF cards[1].is_uppercase THEN 12 ELSE 9)

calculate_sequence_huxi(cards) ==
    IF Len(cards) # 3 THEN Value(0)
    ELSE IF ~is_valid_sequence(cards) THEN Value(0)
    ELSE IF is_special_sequence(cards)
         THEN Value(IF cards[1].is_uppercase THEN 6 ELSE 3)
         ELSE Value(0)

\* mutant of group_huxi: a ti group is scored as an exposed quadruplet
group_huxi_ti_exposed(group) ==
    IF group.type = "peng" THEN calculate_triplet_huxi(group.cards, TRUE)
    ELSE IF group.type = "wei" THEN calculate_triplet_huxi(group.cards, FALSE)
    ELSE IF group.type \in {"pao", "ti"}
         THEN calculate_quadruplet_huxi(group.cards, TRUE)
    ELSE IF group.type = "chi" THEN calculate_sequence_huxi(group.cards)
    ELSE Value(0)

\* the branch of the loop over exposed_groups in calculate_win_huxi
group_huxi(group) ==
    IF group.type = "peng" THEN calculate_triplet_huxi(group.cards, TRUE)
    ELSE IF group.type = "wei" THEN calculate_triplet_huxi(group.cards, FALSE)
    ELSE IF group.type \in {"pao", "ti"}
         THEN calculate_quadruplet_huxi(group.cards, group.type = "pao")
    ELSE IF group.type = "chi" THEN calculate_sequence_huxi(group.cards)
    ELSE Value(0)

\* total_huxi += ... over a list of partial results; one raise aborts the sum
RECURSIVE SumResults(_)
SumResults(rs) ==
    IF rs = <<>> THEN Value(0)
    ELSE LET h == Head(rs)
             t == SumResults(Tail(rs))
         IN IF h.raised \/ t.raised THEN Raised ELSE Value(h.v + t.v)

calculate_win_huxi(all_cards, exposed_groups, win_combination) ==
    SumResults(
        [i \in DOMAIN exposed_groups |-> group_huxi(exposed_groups[i])]
        \o [i \in DOMAIN win_combination.triplets |->
               calculate_triplet_huxi(win_combination.triplets[i], FALSE)]
        \o [i \in DOMAIN win_combination.sequences |->
               calculate_sequence_huxi(win_combination.sequences[i])])

-----------------------------------------------------------------------------
(* rules/win_checker.py *)

\* Python's None for the Optional[Dict] combination
NoCombination == [found |-> FALSE, triplets |-> <<>>, sequences |-> <<>>, pair |-> <<>>]

RECURSIVE try_form_sequences_recursive(_)
try_form_sequences_recursive(cards) ==
    IF Len(cards) = 0 THEN TRUE
    ELSE IF Len(cards) % 3 # 0 THEN FALSE
    ELSE LET possible_seqs == find_sequences(cards)
         IN \E k \in DOMAIN possible_seqs :
               /\ \A i \in 1..3 : In(possible_seqs[k][i], cards)
               /\ try_form_sequences_recursive(
                      remove_cards_from_list(cards, possible_seqs[k]))

can_form_all_sequences(cards) ==
    IF Len(cards) = 0 THEN TRUE
    ELSE IF Len(cards) % 3 # 0 THEN FALSE
    ELSE try_form_sequences_recursive(cards)

\* result [ok, seqs]; ok = FALSE is Python's None
RECURSIVE find_all_sequences(_)
RECURSIVE FindAllFrom(_, _, _)
FindAllFrom(cards, possible_seqs, k) ==
    IF k > Len(possible_seqs) THEN [ok |-> FALSE, seqs |-> <<>>]
    ELSE IF \A i \in 1..3 : In(possible_seqs[k][i], cards)
         THEN LET rest_seqs == find_all_sequences(
                                   remove_cards_from_list(cards, possible_seqs[k]))
              IN IF rest_seqs.ok
                 THEN [ok |-> TRUE, seqs |-> <<possible_seqs[k]>> \o rest_seqs.seqs]
                 ELSE FindAllFrom(cards, possible_seqs, k + 1)
         ELSE FindAllFrom(cards, possible_seqs, k + 1)

find_all_sequences(cards) ==
    IF Len(cards) = 0 THEN [ok |-> TRUE, seqs |-> <<>>]
    ELSE IF Len(cards) % 3 # 0 THEN [ok |-> FALSE, seqs |-> <<>>]
    ELSE FindAllFrom(cards, find_sequences(cards), 1)

\* the loop `for pair in pairs` from its k-th element; result [ok, sequences, pair]
RECURSIVE TryPairsFrom(_, _, _)
TryPairsFrom(cards, pairs, k) ==
    IF k > Len(pairs) THEN [ok |-> FALSE, sequences |-> <<>>, pair |-> <<>>]
    ELSE LET remaining == remove_cards_from_list(cards, pairs[k])
         IN IF Len(remaining) % 3 # 0 THEN TryPairsFrom(cards, pairs, k + 1)
            ELSE IF can_form_all_sequences(remaining)
                 THEN LET sequences == find_all_sequences(remaining)
                      IN IF /\ sequences.ok
                            /\ sequences.seqs # <<>>
                            /\ Len(sequences.seqs) * 3 = Len(remaining)
                         THEN [ok |-> TRUE, sequences |-> sequences.seqs,
                               pair |-> pairs[k]]
                         ELSE TryPairsFrom(cards, pairs, k + 1)
                 ELSE TryPairsFrom(cards, pairs, k + 1)

try_find_sequences_and_pair(cards) ==
    IF Len(cards) < 2 THEN [ok |-> FALSE, sequences |-> <<>>, pair |-> <<>>]
    ELSE TryPairsFrom(cards, find_pairs(cards), 1)

\* mutant of ForcedStep: a class of 4 is taken whole as a forced group of 4
ForcedStep_quad(cards, card, st) ==
    IF Count(cards, card) >= 3
    THEN [triplets  |-> Append(st.triplets, SelectSeq(st.remaining, LAMBDA c : c = card)),
          remaining |-> SelectSeq(st.remaining, LAMBDA c : c # card)]
    ELSE st

\* one iteration of `for card, count in card_count.items()`; st = [triplets, remaining]
ForcedStep(cards, card, st) ==
    IF Count(cards, card) = 4
    THEN [triplets  |-> Append(st.triplets, <<card, card, card>>),
          remaining |-> RemoveFirst(RemoveFirst(RemoveFirst(st.remaining, card), card), card)]
    ELSE IF Count(cards, card) = 3
    THEN [triplets  |-> Append(st.triplets, SelectSeq(st.remaining, LAMBDA c : c = card)),
          remaining |-> remove_cards_from_list(st.remaining,
                            SelectSeq(st.remaining, LAMBDA c : c = card))]
    ELSE st

\* the loop over the keys; each iteration's result is bound as a value
RECURSIVE ForcedLoop(_, _, _)
ForcedLoop(cards, keys, st) ==
    IF keys = <<>> THEN st
    ELSE CHOOSE r \in {ForcedLoop(cards, rest, next) :
                           rest \in {Tail(keys)},
                           next \in {ForcedStep(cards, Head(keys), st)}} : TRUE

\* forced_triplets and remaining after the loop over Counter(cards)
forced_groups(cards) ==
    CHOOSE r \in {ForcedLoop(all, KeysInOrder(all), [triplets |-> <<>>, remaining |-> all]) :
                     all \in {cards}} : TRUE

\* the part of _find_win_combination after the size check
search_combination(cards) ==
    LET f == forced_groups(cards)
    IN IF Len(f.remaining) % 3 = 2
       THEN LET result == try_find_sequences_and_pair(f.remaining)
            IN IF result.ok
               THEN [found |-> TRUE, triplets |-> f.triplets,
                     sequences |-> result.sequences, pair |-> result.pair]
               ELSE NoCombination
       ELSE NoCombination

\* mutant of find_win_combination: the size check is missing
find_win_combination_nosize(cards) == search_combination(cards)

find_win_combination(cards) ==
    IF Len(cards) # WIN_HAND_SIZE THEN NoCombination
    ELSE search_combination(cards)

\* all_cards = hand.cards.copy(); all_cards.append(hand.drawn_card)
all_cards_of(h) ==
    IF h.drawn_card # None THEN Append(h.cards, h.drawn_card) ELSE h.cards

\* (False, 0, None)
NegativeResult ==
    [raised |-> FALSE, win |-> FALSE, huxi |-> 0, combination |-> NoCombination]

\* the tuple can_win returns, or raised when calculate_win_huxi raises
can_win(h) ==
    Bind(find_win_combination(all_cards_of(h)), LAMBDA win_combination :
        IF ~win_combination.found
        THEN NegativeResult
        ELSE Bind(calculate_win_huxi(all_cards_of(h), h.exposed_groups, win_combination),
                  LAMBDA huxi :
                    IF huxi.raised
                    THEN [raised |-> TRUE, win |-> FALSE, huxi |-> 0,
                          combination |-> NoCombination]
                    ELSE IF huxi.v < MIN_HUXI_TO_WIN
                    THEN [raised |-> FALSE, win |-> FALSE, huxi |-> huxi.v,
                          combination |-> win_combination]
                    ELSE [raised |-> FALSE, win |-> TRUE, huxi |-> huxi.v,
                          combination |-> win_combination]))

\* mutant of hand_after_can_win: all_cards aliases hand.cards instead of copying it
hand_after_can_win_alias(h) == [h EXCEPT !.cards = all_cards_of(h)]

\* the Hand object after can_win(hand) has run: the call works on a copy
hand_after_can_win(h) == h

-----------------------------------------------------------------------------
(* core/hand.py : the queries the win check and the round rely on *)

Group(t, cs, concealed) == [type |-> t, cards |-> cs, is_concealed |-> concealed]

RECURSIVE SumLen(_)
SumLen(groups) ==
    IF groups = <<>> THEN 0 ELSE Len(Head(groups).cards) + SumLen(Tail(groups))

get_total_count(h) ==
    Len(h.cards) + (IF h.drawn_card # None THEN 1 ELSE 0) + SumLen(h.exposed_groups)

\* Hand.__init__
EmptyHand == [cards |-> <<>>, drawn_card |-> None, exposed_groups |-> <<>>]

\* an operation on a hand ends with the hand it leaves, and raised = TRUE if it raised
Ok(h) == [hand |-> h, raised |-> FALSE]
Raise(h) == [hand |-> h, raised |-> TRUE]

add_cards(h, cards) == [h EXCEPT !.cards = h.cards \o cards]

\* mutant of draw_card: a second draw replaces the pending tile
draw_card_over(h, card) == Ok([h EXCEPT !.drawn_card = card])

draw_card(h, card) ==
    IF h.drawn_card # None THEN Raise(h)
    ELSE Ok([h EXCEPT !.drawn_card = card])

count_exact_card(h, target_card) == Count(h.cards, target_card)

can_wei(h) ==
    IF h.drawn_card = None THEN FALSE
    ELSE count_exact_card(h, h.drawn_card) = 2

\* index of the first 'wei' group of card, 0 if there is none
wei_group_idx(h, card) ==
    LET found == {i \in DOMAIN h.exposed_groups :
                     /\ h.exposed_groups[i].type = "wei"
                     /\ h.exposed_groups[i].cards # <<>>
                     /\ h.exposed_groups[i].cards[1] = card}
    IN IF found = {} THEN 0 ELSE CHOOSE i \in found : \A j \in found : i <= j

can_ti(h) ==
    IF h.drawn_card = None THEN FALSE
    ELSE IF count_exact_card(h, h.drawn_card) = 3 THEN TRUE
    ELSE wei_group_idx(h, h.drawn_card) # 0

\* mutant of add_exposed_group: the new group takes the place of the list
add_exposed_group_only(h, group_type, cards, is_concealed) ==
    [h EXCEPT !.exposed_groups = << Group(group_type, cards, is_concealed) >>]

add_exposed_group(h, group_type, cards, is_concealed) ==
    [h EXCEPT !.exposed_groups = Append(h.exposed_groups,
                                        Group(group_type, cards, is_concealed))]

\* exposed_groups.pop(idx)
pop_group(h, idx) ==
    [h EXCEPT !.exposed_groups =
        SubSeq(h.exposed_groups, 1, idx - 1)
        \o SubSeq(h.exposed_groups, idx + 1, Len(h.exposed_groups))]

\* [c for c in hand.cards if c == card][:n]
same_cards(h, card, n) ==
    LET same == SelectSeq(h.cards, LAMBDA c : c = card)
    IN SubSeq(same, 1, IF Len(same) < n THEN Len(same) ELSE n)

\* for card in cards: hand.remove_card(card)
remove_each(h, cards) == [h EXCEPT !.cards = remove_cards_from_list(h.cards, cards)]

\* the card discard_drawn_card returns
discarded_drawn_card(h) == h.drawn_card

\* mutant of discard_drawn_card: the pending tile is folded into the concealed tiles
discard_drawn_card_fold(h) ==
    IF h.drawn_card = None THEN Raise(h)
    ELSE Ok([h EXCEPT !.cards = Append(h.cards, h.drawn_card), !.drawn_card = None])

discard_drawn_card(h) ==
    IF h.drawn_card = None THEN Raise(h)
    ELSE Ok([h EXCEPT !.drawn_card = None])

\* mutant of discard_hand_card: the pending tile is dropped, not folded into the hand
discard_hand_card_drop(h, card) ==
    IF ~In(card, h.cards) THEN Raise(h)
    ELSE Ok([h EXCEPT !.cards = RemoveFirst(h.cards, card), !.drawn_card = None])

discard_hand_card(h, card) ==
    IF ~In(card, h.cards) THEN Raise(h)
    ELSE IF h.drawn_card # None
         THEN Ok([h EXCEPT !.cards = Append(RemoveFirst(h.cards, card), h.drawn_card),
                           !.drawn_card = None])
         ELSE Ok([h EXCEPT !.cards = RemoveFirst(h.cards, card)])

-----------------------------------------------------------------------------
(* core/player.py *)

\* mutant of can_peng: the pending tile is counted with the concealed tiles
can_peng_pending(h, card) ==
    count_exact_card(h, card) + (IF h.drawn_card = card THEN 1 ELSE 0) >= 2

can_peng(h, card) == count_exact_card(h, card) >= 2

\* mutant of can_pao: a committed wei group is not looked at
can_pao_no_wei(h, card) == count_exact_card(h, card) = 3

can_pao(h, card) ==
    LET hand_count == count_exact_card(h, card)
        wei_count == IF wei_group_idx(h, card) # 0
                     THEN Len(h.exposed_groups[wei_group_idx(h, card)].cards)
                     ELSE 0
    IN hand_count + wei_count = 3

\* mutant of can_chi: only tiles next to each other in the hand are paired
can_chi_adjacent(h, card) ==
    Bind(Len(h.cards), LAMBDA n :
        Bind(SelectSeq([k \in 1..(n * n) |-> <<((k - 1) \div n) + 1, ((k - 1) % n) + 1>>],
                       LAMBDA p : /\ p[1] + 1 = p[2]
                                  /\ is_valid_sequence(<<card, h.cards[p[1]], h.cards[p[2]]>>)),
             LAMBDA ij : [k \in 1..Len(ij) |-> <<h.cards[ij[k][1]], h.cards[ij[k][2]]>>]))

\* the candidates in the order of the loops over i < j
can_chi(h, card) ==
    Bind(Len(h.cards), LAMBDA n :
        Bind(SelectSeq([k \in 1..(n * n) |-> <<((k - 1) \div n) + 1, ((k - 1) % n) + 1>>],
                       LAMBDA p : /\ p[1] < p[2]
                                  /\ is_valid_sequence(<<card, h.cards[p[1]], h.cards[p[2]]>>)),
             LAMBDA ij : [k \in 1..Len(ij) |-> <<h.cards[ij[k][1]], h.cards[ij[k][2]]>>]))

\* mutant of do_wei: the group is committed face up
do_wei_open(h) ==
    IF ~can_wei(h) THEN Raise(h)
    ELSE LET same == same_cards(h, h.drawn_card, 2)
         IN Ok([add_exposed_group(remove_each(h, same), "wei",
                                  Append(same, h.drawn_card), FALSE)
                   EXCEPT !.drawn_card = None])

do_wei(h) ==
    IF ~can_wei(h) THEN Raise(h)
    ELSE LET same == same_cards(h, h.drawn_card, 2)
         IN Ok([add_exposed_group(remove_each(h, same), "wei",
                                  Append(same, h.drawn_card), TRUE)
                   EXCEPT !.drawn_card = None])

\* mutant of do_ti: the upgraded wei group is left among the committed groups
do_ti_keep(h) ==
    IF ~can_ti(h) THEN Raise(h)
    ELSE LET idx == wei_group_idx(h, h.drawn_card)
         IN IF idx # 0
            THEN Ok([add_exposed_group(h, "ti",
                                       Append(h.exposed_groups[idx].cards, h.drawn_card),
                                       FALSE)
                        EXCEPT !.drawn_card = None])
            ELSE LET same == same_cards(h, h.drawn_card, 3)
                 IN Ok([add_exposed_group(remove_each(h, same), "ti",
                                          Append(same, h.drawn_card), FALSE)
                           EXCEPT !.drawn_card = None])

do_ti(h) ==
    IF ~can_ti(h) THEN Raise(h)
    ELSE LET idx == wei_group_idx(h, h.drawn_card)
         IN IF idx # 0
            THEN Ok([add_exposed_group(pop_group(h, idx), "ti",
                                       Append(h.exposed_groups[idx].cards, h.drawn_card),
                                       FALSE)
                        EXCEPT !.drawn_card = None])
            ELSE LET same == same_cards(h, h.drawn_card, 3)
                 IN Ok([add_exposed_group(remove_each(h, same), "ti",
                                          Append(same, h.drawn_card), FALSE)
                           EXCEPT !.drawn_card = None])

\* mutant of do_peng: every copy of the tile is taken, not the first 2
do_peng_all(h, card) ==
    IF ~can_peng(h, card) THEN Raise(h)
    ELSE LET same == same_cards(h, card, MAX_COPIES)
         IN Ok(add_exposed_group(remove_each(h, same), "peng", Append(same, card), FALSE))

do_peng(h, card) ==
    IF ~can_peng(h, card) THEN Raise(h)
    ELSE LET same == same_cards(h, card, 2)
         IN Ok(add_exposed_group(remove_each(h, same), "peng", Append(same, card), FALSE))

\* mutant of do_pao: the reused wei group is left among the committed groups
do_pao_keep(h, card) ==
    IF ~can_pao(h, card) THEN Raise(h)
    ELSE LET idx == wei_group_idx(h, card)
         IN IF idx # 0
            THEN Ok(add_exposed_group(h, "pao",
                                      Append(h.exposed_groups[idx].cards, card), FALSE))
            ELSE LET same == same_cards(h, card, 3)
                 IN Ok(add_exposed_group(remove_each(h, same), "pao",
                                         Append(same, card), FALSE))

do_pao(h, card) ==
    IF ~can_pao(h, card) THEN Raise(h)
    ELSE LET idx == wei_group_idx(h, card)
         IN IF idx # 0
            THEN Ok(add_exposed_group(pop_group(h, idx), "pao",
                                      Append(h.exposed_groups[idx].cards, card), FALSE))
            ELSE LET same == same_cards(h, card, 3)
                 IN Ok(add_exposed_group(remove_each(h, same), "pao",
                                         Append(same, card), FALSE))

\* for card_to_remove in hand_cards: remove it, or raise with the earlier ones removed
RECURSIVE chi_remove(_, _)
chi_remove(h, hand_cards) ==
    IF hand_cards = <<>> THEN Ok(h)
    ELSE IF ~In(Head(hand_cards), h.cards) THEN Raise(h)
    ELSE chi_remove([h EXCEPT !.cards = RemoveFirst(h.cards, Head(hand_cards))],
                    Tail(hand_cards))

\* mutant of do_chi: the group holds the two concealed tiles only
do_chi_two(h, card, hand_cards) ==
    IF ~is_valid_sequence(<<card>> \o hand_cards) THEN Raise(h)
    ELSE LET removed == chi_remove(h, hand_cards)
         IN IF removed.raised THEN removed
            ELSE Ok(add_exposed_group(removed.hand, "chi", hand_cards, FALSE))

do_chi(h, card, hand_cards) ==
    IF ~is_valid_sequence(<<card>> \o hand_cards) THEN Raise(h)
    ELSE LET removed == chi_remove(h, hand_cards)
         IN IF removed.raised THEN removed
            ELSE Ok(add_exposed_group(removed.hand, "chi", <<card>> \o hand_cards, FALSE))

\* mutant of discard_card: a tile the player does not hold is let through
discard_card_lenient(h, card) ==
    IF h.drawn_card # None /\ card = h.drawn_card THEN discard_drawn_card(h)
    ELSE IF In(card, h.cards) THEN discard_hand_card(h, card)
    ELSE Ok(h)

discard_card(h, card) ==
    IF h.drawn_card # None /\ card = h.drawn_card THEN discard_drawn_card(h)
    ELSE IF In(card, h.cards) THEN discard_hand_card(h, card)
    ELSE Raise(h)

-----------------------------------------------------------------------------
(* rules/score_calculator.py *)

\* mutant of calculate_score: the extra points are rounded to the nearest integer
calculate_score_round(huxi) ==
    IF huxi < MIN_HUXI_TO_WIN THEN 0
    ELSE BASE_SCORE + ((huxi - MIN_HUXI_TO_WIN + 1) \div HUXI_PER_EXTRA_SCORE)

calculate_score(huxi) ==
    IF huxi < MIN_HUXI_TO_WIN THEN 0
    ELSE BASE_SCORE + ((huxi - MIN_HUXI_TO_WIN) \div HUXI_PER_EXTRA_SCORE)

-----------------------------------------------------------------------------
(* ai/ai_player.py *)

\* all_cards of _choose_discard_card: the concealed tiles, then the pending tile
discardable(h) ==
    IF h.drawn_card # None THEN Append(h.cards, h.drawn_card) ELSE h.cards

can_form_special_sequence(card, all_cards) ==
    \E s \in DOMAIN SPECIAL_SEQUENCES :
        /\ \E k \in 1..3 : SPECIAL_SEQUENCES[s][k] = card.value
        /\ \E i \in DOMAIN all_cards, k \in 1..3 :
              /\ SPECIAL_SEQUENCES[s][k] # card.value
              /\ all_cards[i].value = SPECIAL_SEQUENCES[s][k]
              /\ all_cards[i].is_uppercase = card.is_uppercase
              /\ all_cards[i] # card

can_form_normal_sequence(card, all_cards) ==
    \E offset \in {-2, -1, 1, 2} :
        /\ card.value + offset \in CARD_VALUES
        /\ \E i \in DOMAIN all_cards :
              /\ all_cards[i].value = card.value + offset
              /\ all_cards[i].is_uppercase = card.is_uppercase
              /\ all_cards[i] # card

evaluate_card_value(card, all_cards) ==
    LET count == Count(all_cards, card)
    IN (IF count >= 2 THEN 10 ELSE 0)
       + (IF count >= 3 THEN 20 ELSE 0)
       + (IF can_form_special_sequence(card, all_cards) THEN 15 ELSE 0)
       + (IF can_form_normal_sequence(card, all_cards) THEN 5 ELSE 0)
       - (IF card.value \in {1, 10} THEN 3 ELSE 0)

\* the candidates random.choice picks from: the tiles of least value
choose_discard_card(h) ==
    Bind(discardable(h), LAMBDA all_cards :
        Bind({all_cards[i] : i \in DOMAIN all_cards}, LAMBDA held :
            Bind([c \in held |-> evaluate_card_value(c, all_cards)], LAMBDA card_values :
                {c \in held : \A d \in held : card_values[c] <= card_values[d]})))

\* the action, and the tiles a 'discard' may name
decide_after_draw(h) ==
    IF can_win(h).win THEN [action |-> "win", params |-> {}]
    ELSE IF can_ti(h) THEN [action |-> "ti", params |-> {}]
    ELSE IF can_wei(h) THEN [action |-> "wei", params |-> {}]
    ELSE [action |-> "discard", params |-> choose_discard_card(h)]

NoResponse == [action |-> "pass", param |-> <<>>]

\* the responses an AI can give: the rule decides, random() and random.choice
\* leave a choice only among ordinary sequences
decide_on_discard(h, discarded_card) ==
    IF can_pao(h, discarded_card) THEN {[action |-> "pao", param |-> <<>>]}
    ELSE IF can_peng(h, discarded_card) THEN {[action |-> "peng", param |-> <<>>]}
    ELSE Bind(can_chi(h, discarded_card), LAMBDA chi_options :
            Bind({k \in DOMAIN chi_options :
                     is_special_sequence(<<discarded_card>> \o chi_options[k])},
                 LAMBDA special :
                    IF special # {}
                    THEN {[action |-> "chi",
                           param |-> chi_options[CHOOSE k \in special :
                                                    \A j \in special : k <= j]]}
                    ELSE {NoResponse}
                         \cup {[action |-> "chi", param |-> chi_options[k]] :
                                  k \in DOMAIN chi_options}))

-----------------------------------------------------------------------------
(* core/deck.py *)

\* _create_cards: for each value, 4 times a minor tile then a major tile
create_cards ==
    [k \in 1..TOTAL_CARDS |->
        Card(((k - 1) \div (2 * MAX_COPIES)) + 1, (k - 1) % 2 = 1)]

\* Deck.deal on the remaining cards: what is left, what is dealt
deal(remaining_cards, num) ==
    IF num > Len(remaining_cards)
    THEN [raised |-> TRUE, remaining_cards |-> remaining_cards, dealt_cards |-> <<>>]
    ELSE [raised |-> FALSE,
          remaining_cards |-> SubSeq(remaining_cards, num + 1, Len(remaining_cards)),
          dealt_cards |-> SubSeq(remaining_cards, 1, num)]

\* mutant of draw: an empty deck hands out nothing and does not fail
draw_nothing(remaining_cards) ==
    IF remaining_cards = <<>>
    THEN [raised |-> FALSE, remaining_cards |-> remaining_cards, card |-> None]
    ELSE [raised |-> FALSE, remaining_cards |-> Tail(remaining_cards),
          card |-> Head(remaining_cards)]

\* mutant of draw: the card drawn stays in the deck
draw_keep(remaining_cards) ==
    IF remaining_cards = <<>>
    THEN [raised |-> TRUE, remaining_cards |-> remaining_cards, card |-> None]
    ELSE [raised |-> FALSE, remaining_cards |-> remaining_cards,
          card |-> Head(remaining_cards)]

\* Deck.draw on the remaining cards: what is left, the card drawn
draw(remaining_cards) ==
    IF remaining_cards = <<>>
    THEN [raised |-> TRUE, remaining_cards |-> remaining_cards, card |-> None]
    ELSE [raised |-> FALSE, remaining_cards |-> Tail(remaining_cards),
          card |-> Head(remaining_cards)]

-----------------------------------------------------------------------------
(* core/game.py *)

Seats == 0..(NUM_PLAYERS - 1)

\* None where the code holds a seat index or a player
NoSeat == -1

NewPlayer(human) ==
    [hand |-> EmptyHand, score |-> 0, is_dealer |-> FALSE, is_human |-> human]

\* Game.__init__ and _init_players: seat 0 is the human, the others are AI
NewGame ==
    [deck |-> create_cards,
     players |-> [i \in Seats |-> NewPlayer(i = 0)],
     current_player_idx |-> 0,
     dealer_idx |-> 0,
     last_discarded_card |-> None,
     last_discard_player_idx |-> NoSeat,
     game_over |-> FALSE,
     winner |-> NoSeat,
     round_number |-> 0,
     just_responded |-> FALSE]

\* mutant of dealt_hand: every seat is given the first tile of the deck
dealt_hand_all_draw(shuffled, i, dealer) ==
    LET cards == SubSeq(shuffled, i * INITIAL_HAND_SIZE + 1, (i + 1) * INITIAL_HAND_SIZE)
        h == [add_cards(EmptyHand, cards) EXCEPT !.cards = sort_cards(cards)]
    IN draw_card(h, shuffled[NUM_PLAYERS * INITIAL_HAND_SIZE + 1]).hand

\* _deal_initial_cards for seat i, and the dealer's first draw
dealt_hand(shuffled, i, dealer) ==
    LET cards == SubSeq(shuffled, i * INITIAL_HAND_SIZE + 1, (i + 1) * INITIAL_HAND_SIZE)
        h == [add_cards(EmptyHand, cards) EXCEPT !.cards = sort_cards(cards)]
    IN IF i = dealer
       THEN draw_card(h, shuffled[NUM_PLAYERS * INITIAL_HAND_SIZE + 1]).hand
       ELSE h

\* mutant of start_new_round: the hands are dealt on top of what they hold
start_new_round_keep(g, shuffled) ==
    [g EXCEPT
        !.round_number = g.round_number + 1,
        !.deck = SubSeq(shuffled, NUM_PLAYERS * INITIAL_HAND_SIZE + 2, Len(shuffled)),
        !.players = [i \in Seats |->
                        [g.players[i] EXCEPT
                            !.hand = [dealt_hand(shuffled, i, g.dealer_idx) EXCEPT
                                         !.cards = sort_cards(g.players[i].hand.cards \o @),
                                         !.exposed_groups = g.players[i].hand.exposed_groups],
                            !.is_dealer = (i = g.dealer_idx)]],
        !.current_player_idx = g.dealer_idx,
        !.game_over = FALSE,
        !.winner = NoSeat,
        !.last_discarded_card = None]

start_new_round(g, shuffled) ==
    [g EXCEPT
        !.round_number = g.round_number + 1,
        !.deck = SubSeq(shuffled, NUM_PLAYERS * INITIAL_HAND_SIZE + 2, Len(shuffled)),
        !.players = [i \in Seats |->
                        [g.players[i] EXCEPT
                            !.hand = dealt_hand(shuffled, i, g.dealer_idx),
                            !.is_dealer = (i = g.dealer_idx)]],
        !.current_player_idx = g.dealer_idx,
        !.game_over = FALSE,
        !.winner = NoSeat,
        !.last_discarded_card = None]

next_player(g) ==
    [g EXCEPT !.current_player_idx = (g.current_player_idx + 1) % NUM_PLAYERS]

\* _handle_after_draw for the hand h; ans holds the answers a human types
handle_after_draw(h, human, ans) ==
    IF can_win(h).win /\ (~human \/ ans.win)
    THEN [hand |-> h, result |-> "win"]
    ELSE IF can_ti(h) /\ (IF human THEN ans.ti ELSE decide_after_draw(h).action = "ti")
    THEN [hand |-> do_ti(h).hand, result |-> "continue"]
    ELSE IF can_wei(h) /\ (IF human THEN ans.wei ELSE decide_after_draw(h).action = "wei")
    THEN [hand |-> do_wei(h).hand, result |-> "continue"]
    ELSE [hand |-> h, result |-> "continue"]

\* the draw of handle_player_turn: only a player without a pending tile draws
draw_for_turn(g) ==
    IF g.players[g.current_player_idx].hand.drawn_card # None THEN g
    ELSE [g EXCEPT !.deck = draw(g.deck).remaining_cards,
                   !.players[g.current_player_idx].hand =
                       draw_card(g.players[g.current_player_idx].hand,
                                 draw(g.deck).card).hand]

\* handle_player_turn for the current player: the game it leaves and what it returns
handle_player_turn(g, ans) ==
    IF g.just_responded
    THEN [game |-> [g EXCEPT !.just_responded = FALSE], continues |-> TRUE]
    ELSE IF g.players[g.current_player_idx].hand.drawn_card = None /\ g.deck = <<>>
    THEN [game |-> g, continues |-> FALSE]
    ELSE Bind(draw_for_turn(g), LAMBDA g1 :
            Bind(handle_after_draw(g1.players[g1.current_player_idx].hand,
                                   g1.players[g1.current_player_idx].is_human, ans),
                 LAMBDA after :
                    IF after.result = "win"
                    THEN [game |-> [g1 EXCEPT !.players[g1.current_player_idx].hand = after.hand,
                                              !.winner = g1.current_player_idx,
                                              !.game_over = TRUE],
                          continues |-> FALSE]
                    ELSE [game |-> [g1 EXCEPT !.players[g1.current_player_idx].hand = after.hand],
                          continues |-> TRUE]))

\* CLIInterface.display_player_hand sorts the hand it shows in full
display_player_hand(g) ==
    LET i == g.current_player_idx
    IN IF g.players[i].is_human
       THEN [g EXCEPT !.players[i].hand.cards = sort_cards(g.players[i].hand.cards)]
       ELSE g

\* _ask_human_response: pass, or one of the options shown; a sequence is shown
\* once for each pair of tiles, with the first pair of positions that gives it
ask_human_response(h, card, chi_allowed) ==
    LET chi_options == can_chi(h, card)
        tiles(o) == {o[1], o[2]}
        shown == {k \in DOMAIN chi_options :
                     \A j \in 1..(k - 1) : tiles(chi_options[j]) # tiles(chi_options[k])}
    IN {NoResponse}
       \cup (IF can_pao(h, card) THEN {[action |-> "pao", param |-> <<>>]} ELSE {})
       \cup (IF can_peng(h, card) THEN {[action |-> "peng", param |-> <<>>]} ELSE {})
       \cup (IF chi_allowed
             THEN {[action |-> "chi", param |-> chi_options[k]] : k \in shown}
             ELSE {})

\* the responses seat i can give to the tile the current player discarded
responses_of(g, i, card) ==
    LET chi_allowed == (i = (g.current_player_idx + 1) % NUM_PLAYERS)
        h == g.players[i].hand
    IN IF i = g.current_player_idx THEN {NoResponse}
       ELSE IF g.players[i].is_human THEN ask_human_response(h, card, chi_allowed)
       ELSE {IF r.action = "chi" /\ ~chi_allowed THEN NoResponse ELSE r :
                r \in decide_on_discard(h, card)}

priority(action) ==
    CASE action = "pao" -> 3
      [] action = "peng" -> 2
      [] action = "chi" -> 1
      [] OTHER -> 0

\* mutant of first_response: the first seat that responds is served
first_response_by_seat(response) ==
    LET responders == {i \in Seats : response[i].action # "pass"}
    IN IF responders = {} THEN NoSeat
       ELSE CHOOSE i \in responders : \A j \in responders : i <= j

\* the seat whose response is executed: highest priority, lowest seat among equals
first_response(response) ==
    LET responders == {i \in Seats : response[i].action # "pass"}
    IN IF responders = {} THEN NoSeat
       ELSE CHOOSE i \in responders : \A j \in responders :
               \/ priority(response[j].action) < priority(response[i].action)
               \/ priority(response[j].action) = priority(response[i].action) /\ i <= j

\* _check_responses_to_discard, given the response of every seat
check_responses_to_discard(g, card, response) ==
    Bind(first_response(response), LAMBDA w :
        IF w = NoSeat THEN [game |-> g, responded |-> FALSE]
        ELSE [game |-> [g EXCEPT !.players[w].hand =
                                     CASE response[w].action = "pao" ->
                                              do_pao(g.players[w].hand, card).hand
                                       [] response[w].action = "peng" ->
                                              do_peng(g.players[w].hand, card).hand
                                       [] OTHER ->
                                              do_chi(g.players[w].hand, card,
                                                     response[w].param).hand,
                                 !.current_player_idx = w,
                                 !.just_responded = TRUE],
              responded |-> TRUE])

handle_discard(g, card, response) ==
    check_responses_to_discard(
        [g EXCEPT !.last_discarded_card = card,
                  !.last_discard_player_idx = g.current_player_idx],
        card, response)

\* the tiles the current player may discard in main.py's loop: the human is
\* asked (ask_discard_card), an AI decides (decide_after_draw)
discard_choices(g) ==
    Bind(g.players[g.current_player_idx], LAMBDA p :
        IF p.is_human
        THEN IF p.hand.drawn_card # None THEN {p.hand.drawn_card}
             ELSE {p.hand.cards[k] : k \in DOMAIN p.hand.cards}
        ELSE Bind(decide_after_draw(p.hand), LAMBDA d :
                IF d.action = "discard" THEN d.params
                ELSE IF d.action = "win" \/ discardable(p.hand) = <<>> THEN {}
                ELSE {discardable(p.hand)[1]}))

\* the tiles the current player's discard is chosen among: the list
\* ask_discard_card lets the human pick from, all_cards of _choose_discard_card
discard_offers(g) ==
    Bind(g.players[g.current_player_idx], LAMBDA p :
        IF p.is_human
        THEN IF p.hand.drawn_card # None THEN {p.hand.drawn_card}
             ELSE {p.hand.cards[k] : k \in DOMAIN p.hand.cards}
        ELSE {discardable(p.hand)[k] : k \in DOMAIN discardable(p.hand)})

\* an AI that decides 'win', or has nothing to discard, leaves the round's loop
leaves_loop(g) ==
    Bind(g.players[g.current_player_idx], LAMBDA p :
        /\ ~p.is_human
        /\ Bind(decide_after_draw(p.hand).action, LAMBDA action :
               /\ action # "discard"
               /\ action = "win" \/ discardable(p.hand) = <<>>))

\* mutant of end_round: the dealer keeps the seat after a round nobody won
end_round_stay(g) ==
    IF g.winner # NoSeat
    THEN Bind([g EXCEPT !.players[g.winner].score =
                   g.players[g.winner].score
                   + calculate_score(can_win(g.players[g.winner].hand).huxi)],
              LAMBDA g1 : IF g.players[g.winner].is_dealer THEN g1
                          ELSE [g1 EXCEPT !.dealer_idx = g.winner])
    ELSE g

end_round(g) ==
    IF g.winner # NoSeat
    THEN Bind([g EXCEPT !.players[g.winner].score =
                   g.players[g.winner].score
                   + calculate_score(can_win(g.players[g.winner].hand).huxi)],
              LAMBDA g1 : IF g.players[g.winner].is_dealer THEN g1
                          ELSE [g1 EXCEPT !.dealer_idx = g.winner])
    ELSE [g EXCEPT !.dealer_idx = (g.dealer_idx + 1) % NUM_PLAYERS]

-----------------------------------------------------------------------------
(* The win check applied to hands drawn from a bounded family *)

\* bounds of the family of hands
NumClasses == 6
MaxWinCalls == 2

ClassList ==
    << Card(1, FALSE), Card(2, FALSE), Card(3, FALSE), Card(4, FALSE),
       Card(1, TRUE), Card(2, TRUE), Card(3, TRUE), Card(5, FALSE),
       Card(4, TRUE), Card(6, FALSE) >>

\* committed groups a hand of the family may hold (tiles outside ClassList)
GroupChoices ==
    { <<>>,
      << Group("ti", <<Card(9, TRUE), Card(9, TRUE), Card(9, TRUE), Card(9, TRUE)>>, FALSE) >>,
      << Group("pao", <<Card(9, FALSE), Card(9, FALSE), Card(9, FALSE), Card(9, FALSE)>>, FALSE) >>,
      << Group("peng", <<Card(8, FALSE), Card(8, FALSE), Card(8, FALSE)>>, FALSE) >>,
      << Group("wei", <<Card(8, TRUE), Card(8, TRUE), Card(8, TRUE)>>, TRUE),
         Group("chi", <<Card(7, FALSE), Card(8, FALSE), Card(9, FALSE)>>, FALSE) >> }

RECURSIVE TilesOf(_, _)
TilesOf(cv, k) ==
    IF k = 0 THEN <<>>
    ELSE TilesOf(cv, k - 1) \o [i \in 1..cv[k] |-> ClassList[k]]

RECURSIVE SumTo(_, _)
SumTo(cv, k) == IF k = 0 THEN 0 ELSE cv[k] + SumTo(cv, k - 1)

\* the hand holding the tiles counted by cv, tile d pending (None: nothing pending)
WinHand(cv, d, g) ==
    LET tiles == TilesOf(cv, NumClasses)
    IN [cards |-> sort_cards(RemoveFirst(tiles, d)), drawn_card |-> d,
        exposed_groups |-> g]

\* hands of 21 tiles with one tile pending, and of 20 with nothing pending
InitWin ==
    /\ \E g \in GroupChoices, cv \in [1..NumClasses -> 0..MAX_COPIES] :
          \/ /\ SumTo(cv, NumClasses) + SumLen(g) = WIN_HAND_SIZE
             /\ \E k \in 1..NumClasses : cv[k] > 0 /\ hand = WinHand(cv, ClassList[k], g)
          \/ /\ SumTo(cv, NumClasses) + SumLen(g) = WIN_HAND_SIZE - 1
             /\ hand = WinHand(cv, None, g)
    /\ hand0 = hand
    /\ calls = <<>>
    /\ game = None          \* a hand on its own: no Game is constructed
    /\ pc = "start"

\* Player.can_win() -> WinChecker.can_win(self.hand)
CanWin ==
    /\ Len(calls) < MaxWinCalls
    /\ calls' = Append(calls, can_win(hand))
    /\ hand' = hand_after_can_win(hand)
    /\ UNCHANGED <<hand0, game, pc>>

NextWin == CanWin

SpecWin == InitWin /\ [][NextWin]_vars

-----------------------------------------------------------------------------
(* Properties of the win check (SpecWin) *)

\* the tiles the hand held when the first call was made
Evaluated == all_cards_of(hand0)

\* huxi of the committed groups plus a decomposition of the concealed tiles
HuxiWith(c) == calculate_win_huxi(Evaluated, hand0.exposed_groups, c)

\* cards can be split into valid sequences
RECURSIVE SplitsIntoSequences(_)
SplitsIntoSequences(cards) ==
    \/ cards = <<>>
    \/ /\ Len(cards) % 3 = 0
       /\ \E j \in 2..Len(cards) : \E k \in (j+1)..Len(cards) :
             /\ is_valid_sequence(<<cards[1], cards[j], cards[k]>>)
             /\ SplitsIntoSequences(
                   [i \in 1..(Len(cards) - 3) |->
                      cards[IF i < j - 1 THEN i + 1 ELSE IF i < k - 2 THEN i + 2 ELSE i + 3]])

\* C2: a player with at least one committed group whose tiles total 21, whose
\* concealed and pending tiles split into forced triplets, a pair and sequences
\* and whose huxi is at least 15, is told that the hand wins.
C2_FullHandWins ==
    (/\ Len(calls) >= 1
     /\ hand0.exposed_groups # <<>>
     /\ get_total_count(hand0) = WIN_HAND_SIZE)
    => LET c == search_combination(Evaluated)
       IN (c.found /\ ~HuxiWith(c).raised /\ HuxiWith(c).v >= MIN_HUXI_TO_WIN)
             => calls[1].win

\* C3: the verdict is true exactly when a decomposition is found and its huxi is
\* at least 15, and a decomposition below 15 is reported as (false, its huxi,
\* the decomposition).
C3_VerdictFollowsHuxi ==
    (Len(calls) >= 1 /\ get_total_count(hand0) = WIN_HAND_SIZE)
    => LET c == search_combination(Evaluated)
       IN (c.found /\ ~HuxiWith(c).raised)
             => /\ calls[1].win <=> (HuxiWith(c).v >= MIN_HUXI_TO_WIN)
                /\ HuxiWith(c).v < MIN_HUXI_TO_WIN
                      => calls[1] = [raised |-> FALSE, win |-> FALSE,
                                     huxi |-> HuxiWith(c).v, combination |-> c]

C5_NegativeResult ==
    \A i \in DOMAIN calls :
        (\/ Len(Evaluated) # WIN_HAND_SIZE
         \/ ~search_combination(Evaluated).found)
        => calls[i] = NegativeResult

C5_Witness ==
    /\ Len(calls) >= 1
    /\ Len(Evaluated) # WIN_HAND_SIZE
    /\ search_combination(Evaluated).found
    /\ calls[1] = NegativeResult

\* number of forced groups made of card c
ForcedOf(f, c) == Cardinality({i \in DOMAIN f.triplets : In(c, f.triplets[i])})

\* C7: forced extraction takes a class of 3 whole, takes 3 of a class of 4 and
\* leaves 1, leaves classes of 1 or 2 alone, and never makes a group of 4 or 2;
\* no tile of a class of 3 is in the pair or a sequence of a returned combination.
C7_ForcedExtraction ==
    (Len(calls) >= 1 /\ Len(Evaluated) = WIN_HAND_SIZE)
    => LET f == forced_groups(Evaluated)
       IN /\ \A i \in DOMAIN f.triplets :
                /\ Len(f.triplets[i]) = 3
                /\ \A j \in 1..Len(f.triplets[i]) : f.triplets[i][j] = f.triplets[i][1]
          /\ \A c \in AllCards :
                LET n == Count(Evaluated, c)
                IN /\ n = 3 => ForcedOf(f, c) = 1 /\ Count(f.remaining, c) = 0
                   /\ n = 4 => ForcedOf(f, c) = 1 /\ Count(f.remaining, c) = 1
                   /\ n < 3 => ForcedOf(f, c) = 0 /\ Count(f.remaining, c) = n
          /\ \A i \in DOMAIN calls : \A c \in AllCards :
                (calls[i].combination.found /\ Count(Evaluated, c) = 3)
                => /\ ~In(c, calls[i].combination.pair)
                   /\ ~In(c, Flatten(calls[i].combination.sequences))

C7_Witness ==
    /\ Len(calls) >= 1
    /\ Len(Evaluated) = WIN_HAND_SIZE
    /\ \E c3, c4, c2 \in AllCards :
          /\ Count(Evaluated, c3) = 3
          /\ Count(Evaluated, c4) = 4
          /\ Count(Evaluated, c2) = 2
          /\ ForcedOf(forced_groups(Evaluated), c4) = 1
          /\ Count(forced_groups(Evaluated).remaining, c4) = 1

\* the pairs of the remainder after which the rest splits into sequences
GoodPairs(remaining) ==
    {k \in DOMAIN find_pairs(remaining) :
        SplitsIntoSequences(remove_cards_from_list(remaining, find_pairs(remaining)[k]))}

\* C8: the reported combination, huxi and verdict are those of the first
\* successful decomposition in enumeration order (first pair of find_pairs
\* after which the rest splits into sequences).
C8_FirstDecompositionReported ==
    (Len(calls) >= 1 /\ get_total_count(hand0) = WIN_HAND_SIZE)
    => LET f == forced_groups(Evaluated)
           good == GoodPairs(f.remaining)
       IN (Len(f.remaining) % 3 = 2 /\ good # {})
          => LET first == CHOOSE k \in good : \A m \in good : k <= m
                 c == search_combination(Evaluated)
             IN /\ calls[1].combination.found
                /\ calls[1].combination.pair = find_pairs(f.remaining)[first]
                /\ calls[1].combination.sequences = c.sequences
                /\ calls[1].huxi = HuxiWith(c).v
                /\ calls[1].win <=> (HuxiWith(c).v >= MIN_HUXI_TO_WIN)

-----------------------------------------------------------------------------
(* One player's hand driven through the Player operations with any arguments *)

\* bounds of the arguments and of the hand
NumHandClasses == 4
MaxHandTiles == 6

HandClassList ==
    << Card(1, FALSE), Card(2, FALSE), Card(3, FALSE), Card(2, TRUE),
       Card(4, FALSE), Card(1, TRUE), Card(3, TRUE) >>

HandTiles == {HandClassList[k] : k \in 1..NumHandClasses}

\* copies of card the hand holds, committed groups and pending tile included
Held(h, card) ==
    Count(h.cards, card) + (IF h.drawn_card = card THEN 1 ELSE 0)
    + Count(Flatten([i \in DOMAIN h.exposed_groups |-> h.exposed_groups[i].cards]), card)

\* a tile the deck or another player can still supply
Supplied(card) ==
    /\ card \in HandTiles
    /\ Held(hand, card) < MAX_COPIES
    /\ get_total_count(hand) < MaxHandTiles

RECURSIVE HandTilesOf(_, _)
HandTilesOf(cv, k) ==
    IF k = 0 THEN <<>>
    ELSE HandTilesOf(cv, k - 1) \o [i \in 1..cv[k] |-> HandClassList[k]]

InitHand ==
    /\ hand = EmptyHand
    /\ hand0 = EmptyHand
    /\ calls = <<>>
    /\ game = None          \* a Player on its own: no Game is constructed
    /\ pc = "start"

\* what a call leaves: the hand, the hand before it, and the call's outcome
Called(op, r) ==
    /\ hand' = r.hand
    /\ hand0' = hand
    /\ calls' = << [op |-> op, raised |-> r.raised] >>
    /\ UNCHANGED <<game, pc>>

\* Game._deal_initial_cards on this hand: add_cards then sort_cards
Deal ==
    /\ hand = EmptyHand
    /\ calls = <<>>
    /\ \E cv \in [1..NumHandClasses -> 0..MAX_COPIES] :
          /\ Len(HandTilesOf(cv, NumHandClasses)) \in 1..(MaxHandTiles - 1)
          /\ Called("deal",
                Ok([add_cards(hand, HandTilesOf(cv, NumHandClasses))
                       EXCEPT !.cards = sort_cards(HandTilesOf(cv, NumHandClasses))]))

DrawCard == \E card \in HandTiles :
    /\ calls # <<>>
    /\ hand.drawn_card # None \/ Supplied(card)
    /\ Called("draw_card", draw_card(hand, card))

DoWei == calls # <<>> /\ Called("do_wei", do_wei(hand))

DoTi == calls # <<>> /\ Called("do_ti", do_ti(hand))

\* a tile is claimed only if a copy of it is left to be discarded by another player
DoPeng == \E card \in HandTiles :
    /\ calls # <<>>
    /\ \E r \in {do_peng(hand, card)} :
          (r.raised \/ Supplied(card)) /\ Called("do_peng", r)

DoPao == \E card \in HandTiles :
    /\ calls # <<>>
    /\ \E r \in {do_pao(hand, card)} :
          (r.raised \/ Supplied(card)) /\ Called("do_pao", r)

DoChi == \E card \in HandTiles, c1 \in HandTiles, c2 \in HandTiles :
    /\ calls # <<>>
    /\ \E r \in {do_chi(hand, card, <<c1, c2>>)} :
          (r.raised \/ Supplied(card)) /\ Called("do_chi", r)

DiscardCard == \E card \in HandTiles :
    /\ calls # <<>>
    /\ Called("discard_card", discard_card(hand, card))

NextHand ==
    \/ Deal
    \/ DrawCard
    \/ DoWei
    \/ DoTi
    \/ DoPeng
    \/ DoPao
    \/ DoChi
    \/ DiscardCard

SpecHand == InitHand /\ [][NextHand]_vars

-----------------------------------------------------------------------------
(* main.py : rounds played by the turn loop *)

\* bounds: the shuffles a round may start from, and the rounds played
NumShuffles == 6
MaxRounds == 1

\* random.shuffle is any permutation of the 80 positions; these send position
\* k to a*k + b (a coprime to 80) and then exchange the listed pairs of positions
ShuffleList ==
    << [a |-> 1, b |-> 0, swaps |-> <<>>],
       [a |-> 1, b |-> 0, swaps |-> << <<18, 60>>, <<26, 77>> >>],
       [a |-> 1, b |-> 0, swaps |-> << <<8, 79>>, <<58, 75>> >>],
       [a |-> 1, b |-> 1, swaps |-> <<>>],
       [a |-> 1, b |-> 2, swaps |-> <<>>],
       [a |-> 1, b |-> 0, swaps |-> << <<21, 79>> >>],
       [a |-> 1, b |-> 0, swaps |-> << <<54, 70>> >>] >>

RECURSIVE ApplySwaps(_, _)
ApplySwaps(perm, swaps) ==
    IF swaps = <<>> THEN perm
    ELSE ApplySwaps([perm EXCEPT ![Head(swaps)[1] + 1] = perm[Head(swaps)[2] + 1],
                                 ![Head(swaps)[2] + 1] = perm[Head(swaps)[1] + 1]],
                    Tail(swaps))

Shuffle(e) ==
    Bind(ApplySwaps([k \in 1..TOTAL_CARDS |-> ((e.a * (k - 1) + e.b) % TOTAL_CARDS) + 1],
                    e.swaps),
         LAMBDA perm : [k \in 1..TOTAL_CARDS |-> create_cards[perm[k]]])

Init ==
    /\ game = NewGame
    /\ pc = "start"
    /\ hand = EmptyHand
    /\ hand0 = EmptyHand
    /\ calls = <<>>

StartNewRound ==
    /\ pc = "start"
    /\ game.round_number < MaxRounds
    /\ \E s \in 1..NumShuffles :
          game' = start_new_round(game, Shuffle(ShuffleList[s]))
    /\ pc' = "turn"
    /\ UNCHANGED handVars

\* one pass of the loop up to the discard: display_player_hand, handle_player_turn
HandlePlayerTurn ==
    /\ pc = "turn"
    /\ IF game.game_over
       THEN pc' = "end" /\ UNCHANGED game
       ELSE \E ans \in [win : BOOLEAN, ti : BOOLEAN, wei : BOOLEAN] :
               \E shown \in {display_player_hand(game)} :
                  \E r \in {handle_player_turn(shown, ans)} :
                     /\ game' = r.game
                     /\ pc' = IF r.continues THEN "discard" ELSE "end"
    /\ UNCHANGED handVars

\* the rest of the pass: the discard, the responses to it, the next seat
Discard ==
    /\ pc = "discard"
    /\ IF leaves_loop(game)
       THEN pc' = "end" /\ UNCHANGED game
       ELSE IF discard_choices(game) = {}
       THEN \* no tile to discard: min() raises in _choose_discard_card and
            \* main's handler ends the program; the human's prompt repeats
            /\ ~game.players[game.current_player_idx].is_human
            /\ pc' = "error"
            /\ UNCHANGED game
       ELSE \E card \in discard_choices(game) :
               \E g1 \in {[game EXCEPT !.players[game.current_player_idx].hand =
                               discard_card(game.players[game.current_player_idx].hand,
                                            card).hand]} :
                  \E r0 \in responses_of(g1, 0, card),
                     r1 \in responses_of(g1, 1, card),
                     r2 \in responses_of(g1, 2, card) :
                       \E res \in {handle_discard(g1, card, [s \in Seats |->
                                      IF s = 0 THEN r0 ELSE IF s = 1 THEN r1 ELSE r2])} :
                          /\ game' = IF res.responded THEN res.game
                                     ELSE next_player(res.game)
                          /\ pc' = "turn"
    /\ UNCHANGED handVars

\* end_round, then ask_continue
EndRound ==
    /\ pc = "end"
    /\ game' = end_round(game)
    /\ \E again \in BOOLEAN : pc' = IF again THEN "start" ELSE "done"
    /\ UNCHANGED handVars

Next ==
    \/ StartNewRound
    \/ HandlePlayerTurn
    \/ Discard
    \/ EndRound

Spec == Init /\ [][Next]_vars

-----------------------------------------------------------------------------
(* Properties of the commit operations (SpecHand) *)

CommitOps == {"do_wei", "do_ti", "do_peng", "do_pao", "do_chi"}

AllSame(cards) == \A i \in DOMAIN cards : cards[i] = cards[1]

GroupType(h, t) == \E i \in DOMAIN h.exposed_groups : h.exposed_groups[i].type = t

\* C9: every committed group is well formed: a wei or peng group holds exactly
\* 3 identical tiles, a ti or pao group exactly 4 identical tiles, a chi group
\* exactly 3 tiles forming a valid sequence, and the concealment flag is true
\* only for wei groups.
C9_GroupsWellFormed ==
    \A i \in DOMAIN hand.exposed_groups :
        LET g == hand.exposed_groups[i]
        IN /\ g.type \in {"wei", "ti", "peng", "pao", "chi"}
           /\ g.type \in {"wei", "peng"} => Len(g.cards) = 3 /\ AllSame(g.cards)
           /\ g.type \in {"ti", "pao"} => Len(g.cards) = 4 /\ AllSame(g.cards)
           /\ g.type = "chi" => Len(g.cards) = 3 /\ is_valid_sequence(g.cards)
           /\ g.is_concealed => g.type = "wei"

\* a successful commit has just left a concealed wei group next to an open group
C9_Witness ==
    /\ calls # <<>>
    /\ calls[1].op \in CommitOps
    /\ ~calls[1].raised
    /\ Len(hand.exposed_groups) > Len(hand0.exposed_groups)
       \/ GroupType(hand, "ti") \/ GroupType(hand, "pao")
    /\ GroupType(hand, "wei")
    /\ GroupType(hand, "peng") \/ GroupType(hand, "chi")

\* C10: a commit operation that fails leaves the concealed tiles, the pending
\* tile and the committed groups exactly as they were before the call.
C10_FailedCommitAtomic ==
    (calls # <<>> /\ calls[1].op \in CommitOps /\ calls[1].raised) => hand = hand0

-----------------------------------------------------------------------------
(* Properties of the single operations (SpecHand) *)

\* the last call was op
Did(op) == calls # <<>> /\ calls[1].op = op

\* cards without every copy of c
Without(cards, c) == SelectSeq(cards, LAMBDA x : x # c)

\* the same tiles with the same multiplicities, in any order
SameTiles(s, t) == \A c \in AllCards : Count(s, c) = Count(t, c)

\* a committed wei group of card
HasWei(h, card) ==
    \E i \in DOMAIN h.exposed_groups :
        h.exposed_groups[i] = Group("wei", <<card, card, card>>, TRUE)

\* the committed groups without the wei group of card
WithoutWei(h, card) ==
    SelectSeq(h.exposed_groups, LAMBDA g : g # Group("wei", <<card, card, card>>, TRUE))

WeiLegal(h) == h.drawn_card # None /\ Count(h.cards, h.drawn_card) = 2

\* C11: can_wei is true iff a tile is pending and exactly 2 concealed tiles equal
\* it; do_wei then removes those 2 tiles, appends one concealed wei group of 3
\* identical tiles, clears the pending tile and changes nothing else.
C11_ConcealedTriplet ==
    /\ can_wei(hand) <=> WeiLegal(hand)
    /\ (Did("do_wei") /\ WeiLegal(hand0)) =>
          LET d == hand0.drawn_card
          IN /\ ~calls[1].raised
             /\ hand = [cards |-> Without(hand0.cards, d),
                        drawn_card |-> None,
                        exposed_groups |-> Append(hand0.exposed_groups,
                                                  Group("wei", <<d, d, d>>, TRUE))]

\* a wei has been committed from a hand that keeps other concealed tiles
C11_Witness ==
    /\ Did("do_wei")
    /\ WeiLegal(hand0)
    /\ Len(hand0.cards) > 2

TiLegal(h) ==
    /\ h.drawn_card # None
    /\ Count(h.cards, h.drawn_card) = 3 \/ HasWei(h, h.drawn_card)

\* C12: can_ti is true iff a tile is pending and either exactly 3 concealed tiles
\* equal it or a committed wei group of it exists. With such a wei group do_ti
\* removes the group and appends a ti group of its 3 tiles plus the pending tile,
\* the concealed tiles unchanged; otherwise it removes the 3 matching concealed
\* tiles and appends a ti group of them plus the pending tile. The pending tile
\* is cleared in both cases.
C12_ConcealedQuadruplet ==
    /\ can_ti(hand) <=> TiLegal(hand)
    /\ (Did("do_ti") /\ TiLegal(hand0)) =>
          LET d == hand0.drawn_card
              ti == Group("ti", <<d, d, d, d>>, FALSE)
          IN /\ ~calls[1].raised
             /\ hand.drawn_card = None
             /\ IF HasWei(hand0, d)
                THEN /\ hand.cards = hand0.cards
                     /\ hand.exposed_groups = Append(WithoutWei(hand0, d), ti)
                ELSE /\ hand.cards = Without(hand0.cards, d)
                     /\ hand.exposed_groups = Append(hand0.exposed_groups, ti)

\* a wei group has been upgraded while concealed tiles are held
C12_Witness ==
    /\ Did("do_ti")
    /\ TiLegal(hand0)
    /\ HasWei(hand0, hand0.drawn_card)
    /\ hand0.cards # <<>>

\* huxi of the committed groups alone, as calculate_win_huxi sums it
CommittedHuxi(groups) == calculate_win_huxi(<<>>, groups, NoCombination)

Upgraded == Did("do_ti") /\ ~calls[1].raised /\ HasWei(hand0, hand0.drawn_card)

\* C13: after a wei group is upgraded to ti no wei group of that tile remains,
\* the number of committed groups is unchanged, and the 4 tiles count for the
\* concealed-quadruplet huxi (12 major, 9 minor) in the committed total, in
\* place of the triplet's huxi.
C13_UpgradeHuxi ==
    Upgraded =>
        LET d == hand0.drawn_card
            quad == IF d.is_uppercase THEN 12 ELSE 9
            last == hand.exposed_groups[Len(hand.exposed_groups)]
        IN /\ \A i \in DOMAIN hand.exposed_groups :
                  hand.exposed_groups[i].type = "wei"
                      => \A k \in DOMAIN hand.exposed_groups[i].cards :
                             hand.exposed_groups[i].cards[k] # d
           /\ Len(hand.exposed_groups) = Len(hand0.exposed_groups)
           /\ last.type = "ti"
           /\ group_huxi(last) = Value(quad)
           /\ ~CommittedHuxi(hand.exposed_groups).raised
           /\ CommittedHuxi(hand.exposed_groups).v
                 = CommittedHuxi(WithoutWei(hand0, d)).v + quad

\* a wei group of a major tile has been upgraded
C13_Witness == Upgraded /\ hand0.drawn_card.is_uppercase

\* a copy of card is left outside the hand, for another player to discard
CanBeDiscarded(card) == Held(hand, card) < MAX_COPIES

\* the tile of the group the last call appended
Claimed == hand.exposed_groups[Len(hand.exposed_groups)].cards[1]

\* C14: can_pao of a discarded tile is true iff exactly 3 concealed tiles equal
\* it or a committed wei group of it exists.
C14_PaoLegal ==
    \A card \in HandTiles :
        CanBeDiscarded(card) =>
            (can_pao(hand, card) <=> (Count(hand.cards, card) = 3 \/ HasWei(hand, card)))

\* a discarded tile meets a wei group of it, and another one 3 concealed copies
C14_Witness ==
    /\ \E card \in HandTiles :
          CanBeDiscarded(card) /\ HasWei(hand, card) /\ can_pao(hand, card)
    /\ \E card \in HandTiles :
          CanBeDiscarded(card) /\ Count(hand.cards, card) = 3 /\ can_pao(hand, card)

\* C15: a legal do_pao appends one open pao group of 4 identical tiles: a wei
\* group of the tile is removed and its 3 tiles reused, the concealed tiles
\* unchanged, otherwise exactly 3 matching concealed tiles are removed. The
\* group scores as an exposed quadruplet (minor 6, major 9) in both cases.
C15_ExposedQuadruplet ==
    \A card \in HandTiles :
        can_pao(hand, card) =>
            LET r == do_pao(hand, card)
                pao == Group("pao", <<card, card, card, card>>, FALSE)
            IN /\ ~r.raised
               /\ r.hand.drawn_card = hand.drawn_card
               /\ IF HasWei(hand, card)
                  THEN /\ r.hand.cards = hand.cards
                       /\ r.hand.exposed_groups = Append(WithoutWei(hand, card), pao)
                  ELSE /\ r.hand.cards = Without(hand.cards, card)
                       /\ r.hand.exposed_groups = Append(hand.exposed_groups, pao)
               /\ group_huxi(r.hand.exposed_groups[Len(r.hand.exposed_groups)])
                     = Value(IF card.is_uppercase THEN 9 ELSE 6)

\* a pao has been committed out of a wei group
C15_Witness ==
    /\ Did("do_pao")
    /\ ~calls[1].raised
    /\ HasWei(hand0, Claimed)
    /\ can_pao(hand0, Claimed)

\* C16: can_peng of a discarded tile is true iff at least 2 concealed tiles
\* equal it; a legal do_peng removes exactly 2 of them, further copies staying
\* concealed, appends one open peng group of the 2 tiles plus the discarded
\* one, and leaves the pending tile and the other groups unchanged.
C16_ExposedTriplet ==
    \A card \in HandTiles :
        /\ can_peng(hand, card) <=> (Count(hand.cards, card) >= 2)
        /\ can_peng(hand, card) =>
              LET r == do_peng(hand, card)
              IN /\ ~r.raised
                 /\ SameTiles(r.hand.cards \o <<card, card>>, hand.cards)
                 /\ Without(r.hand.cards, card) = Without(hand.cards, card)
                 /\ r.hand.drawn_card = hand.drawn_card
                 /\ r.hand.exposed_groups
                       = Append(hand.exposed_groups,
                                Group("peng", <<card, card, card>>, FALSE))

\* a peng has been committed with a third copy left concealed and a tile pending
C16_Witness ==
    /\ Did("do_peng")
    /\ ~calls[1].raised
    /\ Count(hand.cards, Claimed) >= 1
    /\ hand.drawn_card # None

\* three tiles of one rank whose values are consecutive, or 2, 7 and 10
IsRun(a, b, c) ==
    /\ a.is_uppercase = b.is_uppercase
    /\ b.is_uppercase = c.is_uppercase
    /\ \/ \E v \in 1..8 : {a.value, b.value, c.value} = {v, v + 1, v + 2}
       \/ {a.value, b.value, c.value} = {2, 7, 10}

\* is_valid_sequence accepts exactly the runs, over every tile of the deck
ValidSequenceIsRun ==
    \A a \in AllCards, b \in AllCards, c \in AllCards :
        is_valid_sequence(<<a, b, c>>) <=> IsRun(a, b, c)

\* the pairs of positions of the concealed tiles that make a run with card
RunPositions(h, card) ==
    {p \in (DOMAIN h.cards) \X (DOMAIN h.cards) :
        p[1] < p[2] /\ IsRun(card, h.cards[p[1]], h.cards[p[2]])}

\* C17: can_chi returns exactly the pairs of two different positions of the
\* concealed tiles that form a valid sequence with the discarded tile (one rank,
\* three consecutive values or 2, 7 and 10), one
\* candidate for each such pair of positions; both tiles of a candidate have
\* the rank of the discarded tile.
C17_SequenceResponses ==
    /\ ValidSequenceIsRun
    /\ \A card \in HandTiles :
        LET res == can_chi(hand, card)
            at == RunPositions(hand, card)
        IN /\ Len(res) = Cardinality(at)
           /\ \A a \in HandTiles, b \in HandTiles :
                 Cardinality({k \in DOMAIN res : res[k] = <<a, b>>})
                   = Cardinality({p \in at : <<hand.cards[p[1]], hand.cards[p[2]]>> = <<a, b>>})
           /\ \A k \in DOMAIN res :
                 /\ Len(res[k]) = 2
                 /\ res[k][1].is_uppercase = card.is_uppercase
                 /\ res[k][2].is_uppercase = card.is_uppercase

\* a discarded tile has several candidates, two of them with the same tiles,
\* while tiles of the other rank are concealed too
C17_Witness ==
    \E card \in HandTiles :
        /\ CanBeDiscarded(card)
        /\ Len(can_chi(hand, card)) >= 2
        /\ can_chi(hand, card)[1] = can_chi(hand, card)[2]
        /\ \E i \in DOMAIN hand.cards : hand.cards[i].is_uppercase # card.is_uppercase

\* C18: do_chi of a discarded tile and two concealed tiles that form a valid
\* sequence removes exactly those two tiles from the concealed tiles and appends
\* one open chi group of the three tiles, the discarded one included; the
\* pending tile and the other groups are unchanged.
C18_FormSequence ==
    \A card \in HandTiles, c1 \in HandTiles, c2 \in HandTiles :
        (IsRun(card, c1, c2) /\ In(c1, hand.cards) /\ In(c2, hand.cards)) =>
            LET r == do_chi(hand, card, <<c1, c2>>)
            IN /\ ~r.raised
               /\ SameTiles(r.hand.cards \o <<c1, c2>>, hand.cards)
               /\ r.hand.drawn_card = hand.drawn_card
               /\ r.hand.exposed_groups
                     = Append(hand.exposed_groups, Group("chi", <<card, c1, c2>>, FALSE))

\* a chi has been committed next to an earlier group
C18_Witness ==
    /\ Did("do_chi")
    /\ ~calls[1].raised
    /\ hand0.exposed_groups # <<>>
    /\ Len(hand.exposed_groups) = Len(hand0.exposed_groups) + 1
    /\ Len(hand.cards) = Len(hand0.cards) - 2

\* C19: a draw while a tile is pending fails and leaves the concealed tiles, the
\* pending tile and the committed groups unchanged; a draw with no tile pending
\* only sets the pending tile.
C19_DuplicatePendingDraw ==
    Did("draw_card") =>
        IF hand0.drawn_card # None
        THEN calls[1].raised /\ hand = hand0
        ELSE /\ ~calls[1].raised
             /\ hand.drawn_card # None
             /\ hand = [hand0 EXCEPT !.drawn_card = hand.drawn_card]

\* a draw has failed on a hand with a pending tile
C19_Witness ==
    /\ Did("draw_card")
    /\ calls[1].raised
    /\ hand0.drawn_card # None
    /\ hand0.cards # <<>>

\* C20: on a hand with no pending tile, draw_card(t) followed by the discard of
\* the drawn tile returns t and leaves the concealed tiles and the committed
\* groups as before the draw, with no pending tile.
C20_DrawThenDiscard ==
    \A t \in HandTiles :
        hand.drawn_card = None =>
            LET drawn == draw_card(hand, t)
                back == discard_drawn_card(drawn.hand)
            IN /\ ~drawn.raised
               /\ ~back.raised
               /\ discarded_drawn_card(drawn.hand) = t
               /\ back.hand.drawn_card = None
               /\ SameTiles(back.hand.cards, hand.cards)
               /\ back.hand.exposed_groups = hand.exposed_groups
               /\ discard_card(drawn.hand, t) = back

\* the tile just drawn has been discarded from a hand that holds a copy of it
C20_Witness ==
    /\ Did("discard_card")
    /\ ~calls[1].raised
    /\ hand0.drawn_card # None
    /\ hand.drawn_card = None
    /\ hand.cards = hand0.cards
    /\ In(hand0.drawn_card, hand0.cards)
    /\ hand.exposed_groups # <<>>

\* C21: with a tile pending, the discard of a concealed tile removes one copy of
\* it from the concealed tiles and folds the pending tile into them, so that
\* their number is unchanged and no tile is pending; the discard of a tile that
\* is neither pending nor concealed fails and leaves the hand unchanged.
C21_DiscardConcealed ==
    \A card \in HandTiles :
        /\ (hand.drawn_card # None /\ In(card, hand.cards)) =>
              /\ \A r \in {discard_card(hand, card), discard_hand_card(hand, card)} :
                    /\ ~r.raised
                    /\ SameTiles(r.hand.cards \o <<card>>, hand.cards \o <<hand.drawn_card>>)
                    /\ Len(r.hand.cards) = Len(hand.cards)
                    /\ r.hand.drawn_card = None
                    /\ r.hand.exposed_groups = hand.exposed_groups
              /\ discard_hand_card(hand, card).hand.cards
                    = Append(RemoveFirst(hand.cards, card), hand.drawn_card)
        /\ (hand.drawn_card # card /\ ~In(card, hand.cards)) =>
              /\ discard_card(hand, card) = Raise(hand)
              /\ discard_hand_card(hand, card) = Raise(hand)

\* a concealed tile has been discarded and a different pending tile folded in
C21_Witness ==
    /\ Did("discard_card")
    /\ ~calls[1].raised
    /\ hand0.drawn_card # None
    /\ hand.drawn_card = None
    /\ Len(hand.cards) = Len(hand0.cards)
    /\ ~SameTiles(hand.cards, hand0.cards)

\* groups without the one at position i
Dropped(groups, i) == SubSeq(groups, 1, i - 1) \o SubSeq(groups, i + 1, Len(groups))

\* group holds the 3 tiles of the wei group and one more copy of the tile
Replaces(group, wei) ==
    /\ wei.type = "wei"
    /\ group.type \in {"ti", "pao"}
    /\ Len(wei.cards) = 3
    /\ Len(group.cards) = 4
    /\ SubSeq(group.cards, 1, 3) = wei.cards
    /\ \A k \in 1..4 : group.cards[k] = wei.cards[1]

\* what one operation may do to the committed groups old, leaving new
GroupsKept(old, new) ==
    \/ new = old
    \/ Len(new) = Len(old) + 1 /\ SubSeq(new, 1, Len(old)) = old
    \/ \E i \in DOMAIN old :
          /\ Len(new) = Len(old)
          /\ SubSeq(new, 1, Len(old) - 1) = Dropped(old, i)
          /\ Replaces(new[Len(new)], old[i])

\* C29: an operation leaves every committed group as it is, in type and in
\* tiles, and may add one group; a group leaves the list only when it is a
\* wei group and the ti or pao group that holds its 3 tiles is added in the
\* same operation.
C29_GroupsImmutable ==
    [][GroupsKept(hand.exposed_groups, hand'.exposed_groups)]_vars

\* a second group has been committed and the first is as it was
C29_Witness ==
    /\ calls # <<>>
    /\ ~calls[1].raised
    /\ Len(hand0.exposed_groups) = 1
    /\ Len(hand.exposed_groups) = 2
    /\ hand.exposed_groups[1] = hand0.exposed_groups[1]
    /\ hand0.exposed_groups[1].type = "wei"

-----------------------------------------------------------------------------
(* Properties of the rounds (Spec) *)

\* the round's loop is running, or has just been left
InRound == pc \in {"turn", "discard", "end"}

Total(i) == get_total_count(game.players[i].hand)

Pending(i) == game.players[i].hand.drawn_card # None

\* seat i has drawn or claimed a tile and has not discarded since
HoldsExtraTile(i) ==
    /\ i = game.current_player_idx
    /\ Pending(i) \/ game.just_responded \/ pc = "discard"

\* C1 as stated: in every state of a round each player's concealed tiles,
\* pending tile and committed groups add up to 20, or to 21 only for a seat
\* that holds a pending drawn tile.
C1_TotalWithPendingOnly ==
    InRound => \A i \in Seats : Total(i) = 20 \/ (Total(i) = 21 /\ Pending(i))

\* C1: in every state of a round each player's concealed tiles, pending tile and
\* committed groups add up to 20, except for the current seat from the moment
\* it draws or claims a tile until it discards, when they add up to 21; the
\* extra tile is then the pending tile or lies in the group just committed.
C1_TotalIs20Or21 ==
    InRound => \A i \in Seats : Total(i) = IF HoldsExtraTile(i) THEN 21 ELSE 20

\* a seat that has committed a group holds 21 tiles and no pending tile, while
\* another seat has groups of its own
C1_Witness ==
    /\ InRound
    /\ \E i \in Seats :
          /\ Total(i) = 21
          /\ ~Pending(i)
          /\ game.players[i].hand.exposed_groups # <<>>
          /\ \E j \in Seats \ {i} : game.players[j].hand.exposed_groups # <<>>

\* C22: a player who holds a pending tile at the discard step, having formed no
\* group this turn, can discard the pending tile and can discard any concealed
\* tile instead, whether the seat is the human's or an AI's.
C22_BothDiscardsOffered ==
    (pc = "discard" /\ Pending(game.current_player_idx)) =>
        LET h == game.players[game.current_player_idx].hand
        IN /\ h.drawn_card \in discard_offers(game)
           /\ \A k \in DOMAIN h.cards : h.cards[k] \in discard_offers(game)

-----------------------------------------------------------------------------
(* main.py : several rounds in a row, each from one of a few shuffles *)

\* bounds: the shuffles a round may start from, and the rounds played
NumRoundShuffles == 2
MaxRoundsPlayed == 2

RoundShuffleList ==
    << [a |-> 1, b |-> 0, swaps |-> << <<32, 40>>, <<33, 48>> >>],
       [a |-> 1, b |-> 0, swaps |-> << <<8, 79>>, <<58, 75>> >>],
       [a |-> 1, b |-> 1, swaps |-> <<>>] >>

StartRound ==
    /\ pc = "start"
    /\ game.round_number < MaxRoundsPlayed
    /\ \E s \in 1..NumRoundShuffles :
          game' = start_new_round(game, Shuffle(RoundShuffleList[s]))
    /\ pc' = "turn"
    /\ UNCHANGED handVars

NextRounds ==
    \/ StartRound
    \/ HandlePlayerTurn
    \/ Discard
    \/ EndRound

SpecRounds == Init /\ [][NextRounds]_vars

-----------------------------------------------------------------------------
(* main.py : one round from a deal in which a seat can claim seven times *)

\* bounds: the deals a round may start from, and the rounds played
NumDeals == 2
MaxDealRounds == 1

\* a shuffle after which seat 2 holds seven pairs and the dealer draws, one
\* after the other, the third tile of each
SevenPairsShuffle ==
    [a |-> 1, b |-> 0, swaps |->
          << <<0, 25>>, <<2, 33>>, <<3, 45>>, <<4, 36>>, <<5, 32>>, <<6, 34>>,
             <<7, 38>>, <<9, 56>>, <<11, 58>>, <<13, 60>>, <<15, 62>>, <<16, 57>>,
             <<18, 59>>, <<19, 61>>, <<21, 57>>, <<23, 59>>, <<25, 40>>, <<26, 42>>,
             <<27, 44>>, <<28, 46>>, <<29, 64>>, <<30, 66>>, <<31, 68>>, <<32, 70>>,
             <<33, 56>>, <<34, 55>>, <<35, 63>>, <<37, 54>>, <<38, 76>>, <<39, 65>>,
             <<40, 70>>, <<42, 76>>, <<44, 60>>, <<45, 58>>, <<46, 57>>, <<47, 59>>,
             <<50, 64>>, <<52, 68>>, <<53, 63>>, <<56, 57>>, <<57, 78>>, <<58, 79>>,
             <<59, 71>>, <<61, 65>>, <<62, 71>>, <<64, 65>>, <<65, 71>>, <<66, 79>>,
             <<68, 78>>, <<71, 79>> >>]

DealList ==
    << SevenPairsShuffle, RoundShuffleList[1], RoundShuffleList[2] >>

StartDeal ==
    /\ pc = "start"
    /\ game.round_number < MaxDealRounds
    /\ \E s \in 1..NumDeals :
          game' = start_new_round(game, Shuffle(DealList[s]))
    /\ pc' = "turn"
    /\ UNCHANGED handVars

NextDeals ==
    \/ StartDeal
    \/ HandlePlayerTurn
    \/ Discard
    \/ EndRound

SpecDeals == Init /\ [][NextDeals]_vars

\* a turn step changes the position in the loop, whatever it does to the game
TurnStep == pc = "turn" /\ pc' \in {"discard", "end"}

\* so does a discard step, unless the human is asked for a tile of an empty list
DiscardStep ==
    /\ pc = "discard"
    /\ game.players[game.current_player_idx].is_human =>
          discardable(game.players[game.current_player_idx].hand) # <<>>
    /\ pc' \in {"turn", "end", "error"}

\* the loop of main.py does not stop by itself and the players answer their
\* prompts: a turn step or a discard step that can be taken is taken
SpecDealsLive == SpecDeals /\ WF_pc(TurnStep) /\ WF_pc(DiscardStep)

-----------------------------------------------------------------------------
(* Properties of the rounds played in a row (SpecRounds) *)

\* the game once the current player has discarded card
AfterDiscard(card) ==
    [game EXCEPT !.players[game.current_player_idx].hand =
        discard_card(game.players[game.current_player_idx].hand, card).hand]

\* the responses the three seats can give together to the discard of card
ResponseChoices(card) ==
    {r \in [Seats -> UNION {responses_of(AfterDiscard(card), i, card) : i \in Seats}] :
        \A i \in Seats : r[i] \in responses_of(AfterDiscard(card), i, card)}

Responders(r) == {i \in Seats : r[i].action # "pass"}

\* pao above peng above chi
Rank(action) == IF action = "pao" THEN 3 ELSE IF action = "peng" THEN 2 ELSE 1

Discarding == pc = "discard" /\ ~leaves_loop(game)

\* C26: for one discard at most one response is executed; it is a response of
\* highest priority among those given, pao above peng above chi; a chi is only
\* executed for the seat that follows the discarder; the discarder does not
\* respond; and the seat whose response is executed becomes the current player.
C26_Arbitration ==
    Discarding =>
        \A card \in discard_choices(game) :
            \A r \in ResponseChoices(card) :
                LET d == game.current_player_idx
                    before == AfterDiscard(card)
                    res == handle_discard(before, card, r)
                    served == {i \in Seats :
                                  res.game.players[i].hand # before.players[i].hand}
                IN /\ Cardinality(served) <= 1
                   /\ d \notin Responders(r)
                   /\ d \notin served
                   /\ res.responded <=> Responders(r) # {}
                   /\ res.responded <=> served # {}
                   /\ \A w \in served :
                         LET groups == res.game.players[w].hand.exposed_groups
                         IN /\ w \in Responders(r)
                            /\ \A j \in Responders(r) : Rank(r[j].action) <= Rank(r[w].action)
                            /\ groups[Len(groups)].type = r[w].action
                            /\ groups[Len(groups)].cards[1] = card
                            /\ r[w].action = "chi" => w = (d + 1) % NUM_PLAYERS
                            /\ res.game.current_player_idx = w
                            /\ res.game.just_responded
                   /\ served = {} => res.game.current_player_idx = d

\* a discard that two seats answer, the seat after the discarder with the
\* lower priority
C26_Witness ==
    /\ Discarding
    /\ \E card \in discard_choices(game) :
          \E r \in ResponseChoices(card) :
             LET next == (game.current_player_idx + 1) % NUM_PLAYERS
                 other == (game.current_player_idx + 2) % NUM_PLAYERS
             IN /\ Responders(r) = {next, other}
                /\ Rank(r[next].action) < Rank(r[other].action)

\* the dealer seat the rule gives after a round won by seat w (NoSeat: nobody)
Rotated(dealer, w) ==
    IF w = NoSeat THEN (dealer + 1) % NUM_PLAYERS
    ELSE IF w = dealer THEN dealer
    ELSE w

Dealers(g) == {i \in Seats : g.players[i].is_dealer}

RoundStarts == pc = "start" /\ pc' = "turn"

RoundEnds == pc = "end" /\ pc' # "end"

\* C27: end_round leaves the dealer seat alone when the dealer won, gives it to
\* another winner, and advances it by one modulo 3 when nobody won; after every
\* start_new_round exactly one player is marked dealer, the one at dealer_idx,
\* and that player is the current player.
C27_DealerRotation ==
    /\ [](pc = "end" =>
            \A w \in Seats \cup {NoSeat} :
                end_round([game EXCEPT !.winner = w]).dealer_idx
                    = Rotated(game.dealer_idx, w))
    /\ [][RoundEnds => game'.dealer_idx = Rotated(game.dealer_idx, game.winner)]_vars
    /\ [][RoundStarts =>
            /\ Dealers(game') = {game'.dealer_idx}
            /\ game'.dealer_idx = game.dealer_idx
            /\ game'.current_player_idx = game'.dealer_idx]_vars

\* a second round has started with the seat after the first dealer as dealer
C27_Witness ==
    /\ pc = "turn"
    /\ game.round_number = 2
    /\ game.dealer_idx = 1
    /\ Dealers(game) = {1}
    /\ game.current_player_idx = 1
    /\ Len(game.deck) = TOTAL_CARDS - NUM_PLAYERS * INITIAL_HAND_SIZE - 1

\* the copies of card held at the table and left in the deck
TableCount(g, card) ==
    Held(g.players[0].hand, card) + Held(g.players[1].hand, card)
    + Held(g.players[2].hand, card) + Count(g.deck, card)

\* the table as start_new_round leaves it
Fresh(g) ==
    /\ \A i \in Seats :
          /\ Len(g.players[i].hand.cards) = 20
          /\ g.players[i].hand.exposed_groups = <<>>
          /\ (g.players[i].hand.drawn_card # None) <=> (i = g.dealer_idx)
    /\ Len(g.deck) = 19
    /\ \A card \in AllCards : TableCount(g, card) = MAX_COPIES

\* C28: immediately after start_new_round every player has exactly 20
\* concealed tiles and no committed group, the dealer alone holds a pending
\* tile, the deck holds 19 tiles, and the hands and the deck together are the
\* 80 tiles of the deck: nothing of the previous round is left in a hand.
C28_RoundLifecycle == [][RoundStarts => Fresh(game')]_vars

\* the second round has just been dealt, after a first round was played
C28_Witness ==
    /\ pc = "turn"
    /\ game.round_number = 2
    /\ Fresh(game)
    /\ game.players[game.dealer_idx].hand.drawn_card # None

\* the current player has to draw: no answer was just executed, no tile is pending
NeedsToDraw ==
    /\ pc = "turn"
    /\ ~game.game_over
    /\ ~game.just_responded
    /\ game.players[game.current_player_idx].hand.drawn_card = None

\* C30: draw on an empty deck fails and leaves the deck as it is, deal(n) with
\* n above the number of remaining cards fails and leaves the deck as it is;
\* in the turn loop draw is not called on an empty deck: when the current
\* player has to draw and the deck is empty the turn returns False, nobody has
\* won, and nothing has changed.
C30_ExhaustedDeck ==
    (pc \in {"turn", "discard", "end"}) =>
        /\ draw(game.deck).raised <=> game.deck = <<>>
        /\ draw(game.deck).raised => draw(game.deck).remaining_cards = game.deck
        /\ \A n \in 0..TOTAL_CARDS :
              /\ deal(game.deck, n).raised <=> n > Len(game.deck)
              /\ deal(game.deck, n).raised => deal(game.deck, n).remaining_cards = game.deck
              /\ ~deal(game.deck, n).raised =>
                    deal(game.deck, n).dealt_cards \o deal(game.deck, n).remaining_cards
                        = game.deck
        /\ NeedsToDraw =>
              \A ans \in [win : BOOLEAN, ti : BOOLEAN, wei : BOOLEAN] :
                  LET r == handle_player_turn(display_player_hand(game), ans)
                  IN IF game.deck = <<>>
                     THEN /\ ~r.continues
                          /\ r.game = display_player_hand(game)
                          /\ r.game.winner = NoSeat
                          /\ end_round(r.game).players = r.game.players
                     ELSE /\ ~draw(game.deck).raised
                          /\ r.game.deck = Tail(game.deck)
                          /\ Held(r.game.players[game.current_player_idx].hand,
                                  Head(game.deck))
                                = 1 + Held(game.players[game.current_player_idx].hand,
                                           Head(game.deck))

\* the current player has to draw and the deck is empty
C30_Witness == NeedsToDraw /\ game.deck = <<>>

\* a discard has been made and the loop goes on to the next turn step
Discards == pc = "discard" /\ pc' = "turn"

\* the turn step about to run is the first of the round: nothing was discarded yet
FirstTurn ==
    /\ game.last_discarded_card = None
    /\ game.current_player_idx = game.dealer_idx
    /\ Len(game.deck) = TOTAL_CARDS - NUM_PLAYERS * INITIAL_HAND_SIZE - 1

\* C34: in every state of a round only the current player can hold a pending
\* tile; the player who discards has no pending tile afterwards; and a turn
\* step starts with a pending tile only when it is the dealer's first of the
\* round.
C34_OnePendingTile ==
    /\ [](InRound => \A i \in Seats : Pending(i) => i = game.current_player_idx)
    /\ [][Discards => game'.players[game.current_player_idx].hand.drawn_card = None]_vars
    /\ []((pc = "turn" /\ Pending(game.current_player_idx)) => FirstTurn)

\* an AI has discarded and holds no pending tile, another seat is to move, and
\* an AI's concealed tiles are out of order: a tile it drew was folded in
C34_Witness ==
    /\ pc = "turn"
    /\ game.last_discard_player_idx # NoSeat
    /\ game.last_discard_player_idx # game.current_player_idx
    /\ ~game.players[game.last_discard_player_idx].is_human
    /\ ~Pending(game.last_discard_player_idx)
    /\ \E i \in Seats \ {0} : \E k \in DOMAIN game.players[i].hand.cards :
          k < Len(game.players[i].hand.cards)
          /\ card_lt(game.players[i].hand.cards[k + 1], game.players[i].hand.cards[k])

\* the seats whose committed groups the step has changed
Claimers ==
    {i \in Seats : game'.players[i].hand.exposed_groups
                       # game.players[i].hand.exposed_groups}

\* the discard made in this step has been claimed by another seat
Claims == Discards /\ Claimers # {}

\* the turn step of a player who has just claimed a discard
SkipsDraw == pc = "turn" /\ ~game.game_over /\ game.just_responded

\* C35: a response leaves the deck as it is and makes the responder the
\* current player with just_responded set; that player's next turn step draws
\* nothing, forms no group and only clears the flag, and is followed by a
\* discard; the flag is set in no other state, so only one turn step is skipped.
C35_NoDrawAfterResponse ==
    /\ [][Claims =>
            /\ game'.deck = game.deck
            /\ game'.just_responded
            /\ Claimers = {game'.current_player_idx}
            /\ game'.players[game'.current_player_idx].hand.drawn_card = None]_vars
    /\ [][SkipsDraw =>
            /\ game' = [display_player_hand(game) EXCEPT !.just_responded = FALSE]
            /\ pc' = "discard"
            /\ ~leaves_loop(game')
            /\ discard_choices(game') # {}]_vars
    /\ [](game.just_responded => pc = "turn")
    /\ [][(Discards /\ ~Claims) => ~game'.just_responded]_vars

\* a player has claimed a discard, has skipped the draw, and is about to
\* discard with the deck as the response found it
C35_Witness ==
    /\ pc = "discard"
    /\ ~game.just_responded
    /\ ~Pending(game.current_player_idx)
    /\ Total(game.current_player_idx) = 21
    /\ game.last_discard_player_idx # game.current_player_idx
    /\ game.last_discarded_card
          = game.players[game.current_player_idx].hand.exposed_groups[
                Len(game.players[game.current_player_idx].hand.exposed_groups)].cards[1]


\* C36: whenever the loop comes to a discard (after a draw that did not end
\* the round, or after the player's own chi, peng or pao), the player owns a
\* pending or a concealed tile, the discard has a tile to name, and the
\* program never ends on the error of a discard without a tile.
C36_DiscardAvailable ==
    /\ pc = "discard" =>
          /\ discardable(game.players[game.current_player_idx].hand) # <<>>
          /\ ~leaves_loop(game) => discard_choices(game) # {}
    /\ pc # "error"


\* the discard step just taken was answered by nobody
Unclaimed == Discards /\ ~Claims

\* the tiles in the deck and in the three hands
TableTotal(g) ==
    Len(g.deck) + get_total_count(g.players[0].hand)
    + get_total_count(g.players[1].hand) + get_total_count(g.players[2].hand)

\* C37: in every state of a round the deck and the hands (concealed tiles,
\* pending tiles, committed groups) hold at most 4 copies of each tile class
\* and at most 80 tiles; a response moves the discarded tile into the
\* responder's new group, an unclaimed discard leaves play, and no step
\* other than the start of a round adds a copy of any class.
C37_TileConservation ==
    /\ [](InRound =>
            /\ \A card \in AllCards : TableCount(game, card) <= MAX_COPIES
            /\ TableTotal(game) <= TOTAL_CARDS)
    /\ [][Claims =>
            /\ \A card \in AllCards :
                   TableCount(game', card) = TableCount(game, card)
            /\ \E w \in Claimers :
                   Bind(game'.players[w].hand.exposed_groups, LAMBDA groups :
                      /\ groups # <<>>
                      /\ \E k \in 1..Len(groups[Len(groups)].cards) :
                            groups[Len(groups)].cards[k] = game'.last_discarded_card)]_vars
    /\ [][Unclaimed =>
            \A card \in AllCards :
               TableCount(game', card) =
                  TableCount(game, card)
                  - (IF card = game'.last_discarded_card THEN 1 ELSE 0)]_vars
    /\ [][~RoundStarts =>
            \A card \in AllCards :
               TableCount(game', card) <= TableCount(game, card)]_vars

\* a round in which a discard was claimed and other discards have left play
C37_Witness ==
    /\ pc = "turn"
    /\ \E i \in Seats : game.players[i].hand.exposed_groups # <<>>
    /\ \E card \in AllCards : TableCount(game, card) < MAX_COPIES - 1
    /\ TableTotal(game) < TOTAL_CARDS - 3


\* the draws made in the round since the deal and the dealer's tile
Draws == TOTAL_CARDS - NUM_PLAYERS * INITIAL_HAND_SIZE - 1 - Len(game.deck)

\* the concealed tiles of the three hands
Concealed(g) ==
    Len(g.players[0].hand.cards) + Len(g.players[1].hand.cards)
    + Len(g.players[2].hand.cards)

\* C38: every round that has started reaches its end, with a winner or with
\* an empty deck; at most 19 draws are made in a round, and every response
\* made without a draw in between leaves fewer concealed tiles at the table,
\* so that responses cannot follow each other for ever.
C38_RoundEnds ==
    /\ (pc \in {"turn", "discard"}) ~> (pc = "end")
    /\ [](pc = "end" => game.winner # NoSeat \/ game.deck = <<>>)
    /\ [](InRound => Draws \in 0..19)
    /\ [][Claims => Concealed(game') <= Concealed(game) - 2]_vars


\* what end_round adds to the total of seat i
Gain(g, i) == end_round(g).players[i].score - g.players[i].score

\* the game at the end of a round that seat w has won
WonBy(w) == [game EXCEPT !.winner = w, !.game_over = TRUE]

-----------------------------------------------------------------------------
(* The rules' pure functions applied to arguments drawn from bounded sets *)

\* bounds of the arguments
MaxHuxi == 40
MaxParts == 2

\* tiles for the lists that are not 3 tiles long, and for a combination's triplets
RuleTiles == {Card(2, FALSE), Card(2, TRUE), Card(7, FALSE)}

RuleSequences ==
    { <<Card(1, FALSE), Card(2, FALSE), Card(3, FALSE)>>,
      <<Card(10, TRUE), Card(2, TRUE), Card(7, TRUE)>>,
      <<Card(4, FALSE), Card(5, FALSE), Card(6, FALSE)>>,
      <<Card(2, FALSE), Card(7, TRUE), Card(10, FALSE)>> }

\* the lists of at most n elements of S
ListsUpTo(S, n) == UNION {[1..k -> S] : k \in 0..n}

InitRules ==
    /\ calls = <<>>
    /\ hand = EmptyHand
    /\ hand0 = EmptyHand
    /\ game = None          \* static methods: no Game and no Hand is constructed
    /\ pc = "start"

\* what a call leaves: the function, its arguments and what it returned
Applied(op, args, result) ==
    /\ calls' = << [op |-> op, args |-> args, result |-> result] >>
    /\ UNCHANGED <<hand, hand0, game, pc>>

\* each function is applied once, to arguments of its own
CalculateTripletHuxi ==
    /\ calls = <<>>
    /\ \E c \in AllCards, d \in AllCards, is_exposed \in BOOLEAN :
          /\ d = c \/ d \in RuleTiles
          /\ Applied("calculate_triplet_huxi", << <<c, c, d>>, is_exposed >>,
                     calculate_triplet_huxi(<<c, c, d>>, is_exposed))

CalculateQuadrupletHuxi ==
    /\ calls = <<>>
    /\ \E c \in AllCards, d \in AllCards, is_exposed \in BOOLEAN :
          /\ d = c \/ d \in RuleTiles
          /\ Applied("calculate_quadruplet_huxi", << <<c, c, c, d>>, is_exposed >>,
                     calculate_quadruplet_huxi(<<c, c, c, d>>, is_exposed))

CalculateSequenceHuxi ==
    /\ calls = <<>>
    /\ \E a \in AllCards, b \in AllCards, c \in AllCards :
          Applied("calculate_sequence_huxi", << <<a, b, c>> >>,
                  calculate_sequence_huxi(<<a, b, c>>))

IsValidSequence ==
    /\ calls = <<>>
    /\ \/ \E a \in AllCards, b \in AllCards, c \in AllCards :
             Applied("is_valid_sequence", << <<a, b, c>> >>, is_valid_sequence(<<a, b, c>>))
       \/ \E cards \in ListsUpTo(RuleTiles, 4) :
             Applied("is_valid_sequence", << cards >>, is_valid_sequence(cards))

CalculateScore ==
    /\ calls = <<>>
    /\ \E huxi \in (0 - MaxHuxi)..MaxHuxi :
          Applied("calculate_score", << huxi >>, calculate_score(huxi))

CalculateWinHuxi ==
    /\ calls = <<>>
    /\ \E groups \in GroupChoices,
          triplets \in ListsUpTo({<<c, c, c>> : c \in RuleTiles}, MaxParts),
          sequences \in ListsUpTo(RuleSequences, MaxParts),
          pair \in {<<c, c>> : c \in RuleTiles} :
           \E comb \in {[found |-> TRUE, triplets |-> triplets,
                          sequences |-> sequences, pair |-> pair]} :
               Applied("calculate_win_huxi", <<groups, comb>>,
                       calculate_win_huxi(Flatten(triplets) \o Flatten(sequences) \o pair,
                                          groups, comb))

NextRules ==
    \/ CalculateTripletHuxi
    \/ CalculateQuadrupletHuxi
    \/ CalculateSequenceHuxi
    \/ IsValidSequence
    \/ CalculateScore
    \/ CalculateWinHuxi

SpecRules == InitRules /\ [][NextRules]_vars

-----------------------------------------------------------------------------
(* Properties of the rules' functions (SpecRules) *)

\* the huxi table: triplets and quadruplets by rank and visibility
TripletTable(major, exposed) ==
    IF exposed THEN (IF major THEN 3 ELSE 1) ELSE (IF major THEN 6 ELSE 3)

QuadrupletTable(major, exposed) ==
    IF exposed THEN (IF major THEN 9 ELSE 6) ELSE (IF major THEN 12 ELSE 9)

\* the huxi table: a sequence scores only with the values 1, 2, 3 or 2, 7, 10
SequenceTable(cards) ==
    IF /\ Len(cards) = 3
       /\ IsRun(cards[1], cards[2], cards[3])
       /\ {cards[1].value, cards[2].value, cards[3].value} \in {{1, 2, 3}, {2, 7, 10}}
    THEN (IF cards[1].is_uppercase THEN 6 ELSE 3)
    ELSE 0

GroupTable(g) ==
    CASE g.type = "wei" -> TripletTable(g.cards[1].is_uppercase, FALSE)
      [] g.type = "peng" -> TripletTable(g.cards[1].is_uppercase, TRUE)
      [] g.type = "ti" -> QuadrupletTable(g.cards[1].is_uppercase, FALSE)
      [] g.type = "pao" -> QuadrupletTable(g.cards[1].is_uppercase, TRUE)
      [] g.type = "chi" -> SequenceTable(g.cards)

RECURSIVE SumOf(_)
SumOf(ns) == IF ns = <<>> THEN 0 ELSE Head(ns) + SumOf(Tail(ns))

SumOver(list, F(_)) == SumOf([i \in DOMAIN list |-> F(list[i])])

Applying(op) == calls # <<>> /\ calls[1].op = op

\* the call returned n, without raising
Returns(n) == ~calls[1].result.raised /\ calls[1].result.v = n

\* C23: the huxi of one group follows the table (triplet concealed 3/6, exposed
\* 1/3; quadruplet concealed 9/12, exposed 6/9; a sequence 1-2-3 or 2-7-10 3/6,
\* any other sequence 0; minor/major), the pair counts for nothing, and the
\* huxi of a win is the sum of the table's values over the committed groups,
\* the triplets and the sequences of the combination.
C23_HuxiTable ==
    /\ Applying("calculate_triplet_huxi") =>
          LET cards == calls[1].args[1]
          IN AllSame(cards) =>
                Returns(TripletTable(cards[1].is_uppercase, calls[1].args[2]))
    /\ Applying("calculate_quadruplet_huxi") =>
          LET cards == calls[1].args[1]
          IN AllSame(cards) =>
                Returns(QuadrupletTable(cards[1].is_uppercase, calls[1].args[2]))
    /\ Applying("calculate_sequence_huxi") =>
          Returns(SequenceTable(calls[1].args[1]))
    /\ Applying("calculate_win_huxi") =>
          LET groups == calls[1].args[1]
              comb == calls[1].args[2]
          IN Returns(SumOver(groups, GroupTable)
                     + SumOver(comb.triplets,
                               LAMBDA t : TripletTable(t[1].is_uppercase, FALSE))
                     + SumOver(comb.sequences, SequenceTable))

\* a win's huxi has been summed over committed groups, a triplet and sequences
\* and reaches the 15 needed to win
C23_Witness ==
    /\ Applying("calculate_win_huxi")
    /\ Len(calls[1].args[1]) = 2
    /\ calls[1].args[2].triplets # <<>>
    /\ Len(calls[1].args[2].sequences) = 2
    /\ ~calls[1].result.raised
    /\ calls[1].result.v >= MIN_HUXI_TO_WIN

\* the integer part of n / 3 for n >= 0
Thirds(n) == CHOOSE q \in 0..n : 3 * q <= n /\ n < 3 * (q + 1)

\* C24: calculate_score gives 0 below 15 huxi and 1 + floor((huxi - 15) / 3)
\* from 15 on: 15 gives 1, 18 gives 2, 22 gives 3, 27 gives 5; the score
\* never decreases as huxi grows and is at least 1 exactly from 15 on.
C24_Score ==
    Applying("calculate_score") =>
        LET huxi == calls[1].args[1]
            points == calls[1].result
        IN /\ huxi < 15 => points = 0
           /\ huxi >= 15 => points = 1 + Thirds(huxi - 15)
           /\ huxi = 15 => points = 1
           /\ huxi = 18 => points = 2
           /\ huxi = 22 => points = 3
           /\ huxi = 27 => points = 5
           /\ points >= 1 <=> huxi >= 15
           /\ calculate_score(huxi - 1) <= points

\* 27 huxi have been scored
C24_Witness ==
    /\ Applying("calculate_score")
    /\ calls[1].args[1] = 27
    /\ calls[1].result = 5

\* C25: is_valid_sequence is true iff it is given exactly 3 tiles of one rank
\* whose values are 1-2-3, 2-7-10 or three consecutive integers, in whatever
\* order the tiles are given; mixed ranks, repeated values and every other set
\* of values give false.
C25_ValidSequence ==
    Applying("is_valid_sequence") =>
        LET cards == calls[1].args[1]
        IN /\ calls[1].result
                <=> (Len(cards) = 3 /\ IsRun(cards[1], cards[2], cards[3]))
           /\ Len(cards) = 3 =>
                 \A f \in [1..3 -> 1..3] :
                     (\A i \in 1..3 : \E j \in 1..3 : f[j] = i)
                         => is_valid_sequence([i \in 1..3 |-> cards[f[i]]]) = calls[1].result

\* 2-7-10 has been accepted with its tiles given out of order
C25_Witness ==
    /\ Applying("is_valid_sequence")
    /\ calls[1].result
    /\ calls[1].args[1] = <<Card(10, TRUE), Card(2, TRUE), Card(7, TRUE)>>

-----------------------------------------------------------------------------
(* The win search applied to lists of tiles drawn from a bounded family *)

\* bounds of the family: the tile classes, the copies of a class, the tiles
NumSearchClasses == 6
MaxSearchCopies == 2
MaxSearchTiles == 12

SearchClassList ==
    << Card(1, FALSE), Card(2, FALSE), Card(3, FALSE), Card(4, FALSE),
       Card(7, FALSE), Card(10, FALSE), Card(2, TRUE) >>

RECURSIVE SearchTilesOf(_, _)
SearchTilesOf(cv, k) ==
    IF k = 0 THEN <<>>
    ELSE SearchTilesOf(cv, k - 1) \o [i \in 1..cv[k] |-> SearchClassList[k]]

\* lists of WIN_HAND_SIZE tiles the search is also applied to
FullLists ==
    { [i \in 1..WIN_HAND_SIZE |-> Card(((i - 1) \div 3) + 1, FALSE)],
      [i \in 1..WIN_HAND_SIZE |-> Card(((i - 1) % 7) + 1, (i % 2) = 0)],
      [i \in 1..WIN_HAND_SIZE |->
          Card(IF i <= 9 THEN ((i - 1) % 3) + 1
               ELSE IF i <= 18 THEN <<2, 7, 10>>[((i - 1) % 3) + 1]
               ELSE i - 15, FALSE)] }

\* a hand that holds cards concealed, in this order
Holding(cards) == [EmptyHand EXCEPT !.cards = cards]

\* the list as dealt (sorted), kept in hand0, and the list searched, in hand
InitSearch ==
    /\ \/ \E cv \in [1..NumSearchClasses -> 0..MaxSearchCopies] :
             /\ Len(SearchTilesOf(cv, NumSearchClasses)) \in 1..MaxSearchTiles
             /\ hand = Holding(sort_cards(SearchTilesOf(cv, NumSearchClasses)))
       \/ \E cards \in FullLists : hand = Holding(sort_cards(cards))
    /\ hand0 = hand
    /\ calls = <<>>
    /\ game = None         \* lists on their own: no Game is constructed
    /\ pc = "start"

\* cards with its first k cards moved to the end
Rotated_by(cards, k) ==
    SubSeq(cards, k + 1, Len(cards)) \o SubSeq(cards, 1, k)

Reversed(cards) == [i \in 1..Len(cards) |-> cards[Len(cards) + 1 - i]]

\* Hand.discard_hand_card and draws leave the concealed tiles in another order
Reorder ==
    /\ calls = <<>>
    /\ pc = "start"
    /\ \E cards \in {Rotated_by(hand.cards, k) : k \in 1..(Len(hand.cards) - 1)}
                     \cup {Reversed(hand.cards)} :
          /\ cards # hand.cards
          /\ hand' = Holding(cards)
    /\ pc' = "reordered"
    /\ UNCHANGED <<hand0, calls, game>>

\* what a call of the search leaves: the call and its result
Searched(op, result) ==
    /\ calls' = << [op |-> op, result |-> result] >>
    /\ UNCHANGED <<hand, hand0, game, pc>>

TryFormSequencesRecursive ==
    /\ calls = <<>>
    /\ Searched("try_form_sequences_recursive", try_form_sequences_recursive(hand.cards))

FindAllSequences ==
    /\ calls = <<>>
    /\ Searched("find_all_sequences", find_all_sequences(hand.cards))

TryFindSequencesAndPair ==
    /\ calls = <<>>
    /\ Searched("try_find_sequences_and_pair", try_find_sequences_and_pair(hand.cards))

CanWinOf ==
    /\ calls = <<>>
    /\ Searched("can_win", can_win(hand))

NextSearch ==
    \/ Reorder
    \/ TryFormSequencesRecursive
    \/ FindAllSequences
    \/ TryFindSequencesAndPair
    \/ CanWinOf

SpecSearch == InitSearch /\ [][NextSearch]_vars

-----------------------------------------------------------------------------
(* Properties of the win search (SpecSearch) *)

Searching(op) == calls # <<>> /\ calls[1].op = op

\* the sequences among seqs the recursion tries on cards
Tried(cards, seqs) ==
    {k \in DOMAIN seqs : \A i \in 1..3 : In(seqs[k][i], cards)}

Recurses(cards) == Len(cards) # 0 /\ Len(cards) % 3 = 0

Max(S) == CHOOSE n \in S : \A m \in S : m <= n

\* every call below the search of cards is made with 3 tiles less than its caller
RECURSIVE RemovesThree(_)
RemovesThree(cards) ==
    Recurses(cards) =>
        Bind(find_sequences(cards), LAMBDA seqs :
            \A k \in Tried(cards, seqs) :
                Bind(remove_cards_from_list(cards, seqs[k]), LAMBDA remaining :
                    /\ Len(remaining) = Len(cards) - 3
                    /\ RemovesThree(remaining)))

\* the longest chain of nested calls below the search of cards
RECURSIVE SearchDepth(_)
SearchDepth(cards) ==
    IF Recurses(cards)
    THEN Bind(find_sequences(cards), LAMBDA seqs :
            Max({0} \cup {1 + SearchDepth(remove_cards_from_list(cards, seqs[k])) :
                              k \in Tried(cards, seqs)}))
    ELSE 0

\* C31: every recursive step of the sequence search is made with exactly 3
\* tiles less, the recursion is never deeper than a third of the tiles, 7 for
\* 21 tiles, and both searches return a result for every list.
C31_SearchTerminates ==
    /\ Searching("try_form_sequences_recursive") =>
          /\ RemovesThree(hand.cards)
          /\ Bind(SearchDepth(hand.cards), LAMBDA depth :
                 /\ depth <= Len(hand.cards) \div 3
                 /\ Len(hand.cards) <= WIN_HAND_SIZE => depth <= 7)
          /\ calls[1].result \in BOOLEAN
    /\ Searching("find_all_sequences") =>
          /\ calls[1].result.ok \in BOOLEAN
          /\ calls[1].result.ok <=> try_form_sequences_recursive(hand.cards)
          /\ calls[1].result.ok => Len(calls[1].result.seqs) * 3 = Len(hand.cards)

\* a list of 21 tiles has been searched down to 7 nested calls
C31_Witness ==
    /\ Searching("try_form_sequences_recursive")
    /\ calls[1].result
    /\ Len(hand.cards) = WIN_HAND_SIZE
    /\ SearchDepth(hand.cards) = 7

\* what forced extraction can leave: no class of tiles is held 3 times
IsRemainder(cards) == \A c \in AllCards : Count(cards, c) <= 2

\* cards is one pair of identical tiles and valid sequences
HasPartition(cards) ==
    \E c \in AllCards :
        /\ Count(cards, c) >= 2
        /\ SplitsIntoSequences(RemoveFirst(RemoveFirst(cards, c), c))

\* C32: for every remainder R the pair-plus-sequences search returns a
\* decomposition if R is one pair of identical tiles plus valid sequences, and
\* returns none only when R has no such partition.
C32_SearchComplete ==
    (Searching("try_find_sequences_and_pair") /\ IsRemainder(hand.cards)) =>
        /\ calls[1].result.ok <=> HasPartition(hand.cards)
        /\ calls[1].result.ok =>
              /\ Len(calls[1].result.pair) = 2
              /\ calls[1].result.pair[1] = calls[1].result.pair[2]
              /\ \A k \in DOMAIN calls[1].result.sequences :
                    is_valid_sequence(calls[1].result.sequences[k])
              /\ SameTiles(calls[1].result.pair \o Flatten(calls[1].result.sequences),
                           hand.cards)

\* C33: two hands that hold the same tiles, the concealed tiles stored in
\* different orders, get the same win verdict and the same huxi from can_win.
C33_OrderIndependent ==
    (Searching("can_win") /\ SameTiles(hand.cards, hand0.cards)) =>
        /\ calls[1].result.win = can_win(hand0).win
        /\ calls[1].result.huxi = can_win(hand0).huxi
        /\ calls[1].result.raised = can_win(hand0).raised

\* can_win has been asked about 21 tiles stored in another order than dealt
C33_Witness ==
    /\ Searching("can_win")
    /\ hand.cards # hand0.cards
    /\ SameTiles(hand.cards, hand0.cards)
    /\ Len(hand.cards) = WIN_HAND_SIZE

====

